---- MODULE Spec2Model ----
(***************************************************************************)
(* Model of the NBABrain rating / ranking engine.                          *)
(*                                                                         *)
(* Numbers.  A JavaScript value is a record [t, v].  t is the kind of the  *)
(* value ("num" for a finite number, "nan", "inf", "ninf", "undefined",    *)
(* "null", "str" for a numeric string, "blank" for the empty string,       *)
(* "spaces" for a string of white space, "text" for any other string,      *)
(* "date" for a parseable date string, "bool", "object").  A finite number is kept in fixed point, in tenths:    *)
(* v = 15000 is 1500, v = 1152 is 115.2, so that Math.round is a real      *)
(* operation.  A "date" carries its day number in v.                       *)
(***************************************************************************)
EXTENDS Integers, Sequences, FiniteSets, TLC

VARIABLES
    pc,         \* which operation has run
    history,    \* EloHistoryPoint[] handed to computeEloChangeLastN
    games,      \* GameHistory[] handed to computeEloChangeLastN
    n,          \* the window handed to computeEloChangeLastN
    delta,      \* its result
    raw,        \* the raw team record handed to mapTeam
    team,       \* the Team mapTeam returns
    TEAMS,      \* the module table of teams that rankTeams ranks in place
    rankedBy,   \* the order of the last rankTeams call: "none", "asc" or "desc"
    reranked,   \* whether the last rankTeams call repeated the call before it
    selected,   \* the id of the team TeamDetail shows (0: none yet)
    categoryRank, \* its categoryRanks entry for one category: [present, rank]
    player,     \* the Player handed to getPlayerCategoryRatings
    ratings,    \* the value it returns for each category key
    teams,      \* the teams prop of TeamComparisonEloChart and TeamDetail's team source
    timeRange,  \* the selected time range: "week", "month" or "season"
    zoneShift,  \* hours the client's UTC offset at the latest date exceeds the one
                \* at the cutoff date (0 unless daylight saving changes in between)
    chartData,  \* the chart rows chartData returns
    shown,      \* the index in teams of the team TeamDetail shows (0: none)
    filtered,   \* the points filteredEloHistory returns for it
    arg,        \* the argument of the normalizer helper under study
    result,     \* what the helper returns for it
    loader,     \* the JSON loader that runs: "loadTeamsFromJson" or "fetchPlayerData"
    responses,  \* what each of its URLs answers, in the order of the URL list
    requested,  \* the URLs it has requested so far, in order (indices into the list)
    mappedUrls, \* the URLs whose records were handed to mapTeam
    lastError,  \* fetchPlayerData's lastError: the URL whose request failed last (0: none)
    outcome,    \* how the loader ended: [kind, data], kind "pending" while it runs
    app,        \* App's state: teams, dailySummary, selectedTeam, isLoading, error
    fetched,    \* how the two fetches of the load in progress or just finished settled
    loads,      \* the number of loadInitialData calls so far
    effectDue,  \* whether the default-selection effect is due (its dependencies changed)
    filteredPlayers, \* the rows of the player rankings table, after its filters
    sortKey,    \* the table's sort key
    sortDir,    \* its sort direction: "asc" or "desc"
    sortedPlayers \* the rows in the order the table lists them

deltaVars == <<history, games, n, delta>>
teamVars == <<raw, team>>
rankVars == <<TEAMS, rankedBy, reranked>>
detailVars == <<selected, categoryRank>>
playerVars == <<player, ratings>>
chartVars == <<teams, timeRange, zoneShift, chartData, shown, filtered>>
helperVars == <<arg, result>>
loadVars == <<loader, responses, requested, mappedUrls, lastError, outcome>>
appVars == <<app, fetched, loads, effectDue>>
tableVars == <<filteredPlayers, sortKey, sortDir, sortedPlayers>>
vars == <<pc, history, games, n, delta, raw, team, TEAMS, rankedBy, reranked,
          selected, categoryRank, player, ratings, teams, timeRange, zoneShift,
          chartData, shown, filtered, arg, result, loader, responses, requested,
          mappedUrls, lastError, outcome, app, fetched, loads, effectDue,
          filteredPlayers, sortKey, sortDir, sortedPlayers>>

----------------------------------------------------------------------------
(* JavaScript values *)

Undefined == [t |-> "undefined", v |-> 0]
Null      == [t |-> "null", v |-> 0]
NaN       == [t |-> "nan", v |-> 0]
PosInf    == [t |-> "inf", v |-> 0]
NegInf    == [t |-> "ninf", v |-> 0]
Blank     == [t |-> "blank", v |-> 0]
Spaces    == [t |-> "spaces", v |-> 0]
Object    == [t |-> "object", v |-> 0]
Text      == [t |-> "text", v |-> 0]
Bool      == [t |-> "bool", v |-> 1]
Num(x)    == [t |-> "num", v |-> x]
Str(x)    == [t |-> "str", v |-> x]
Date(d)   == [t |-> "date", v |-> d]

\* an integer as a fixed-point number
Int10(i) == i * 10

\* typeof value === 'number' (NaN and the infinities are numbers)
TypeofNumber(x) == x.t \in {"num", "nan", "inf", "ninf"}
TypeofString(x) == x.t \in {"str", "blank", "spaces", "text", "date"}
\* Number.isFinite
IsFinite(x) == x.t = "num"
\* a ?? b
Coalesce(a, b) == IF a.t \in {"undefined", "null"} THEN b ELSE a
\* truthiness of a value (the condition of !x, x || y and filter callbacks)
Truthy(x) ==
    CASE x.t \in {"undefined", "null", "nan", "blank"} -> FALSE
      [] x.t \in {"num", "bool"} -> x.v # 0
      [] OTHER -> TRUE

\* Number(s) of a string
NumberOfString(s) ==
    CASE s.t = "str" -> Num(s.v)
      [] s.t \in {"blank", "spaces"} -> Num(0)
      [] OTHER -> NaN

\* Math.round of a finite number: nearest integer, halves go up
MathRound(x) == ((x + 5) \div 10) * 10

asNumber(value) ==
    IF TypeofNumber(value) /\ IsFinite(value) THEN value
    ELSE LET num == IF TypeofString(value) THEN NumberOfString(value) ELSE NaN
         IN  IF IsFinite(num) THEN num ELSE Undefined

roundNumber(value) ==
    LET num == asNumber(value)
    IN  IF num = Undefined THEN Undefined ELSE Num(MathRound(num.v))

\* new Date(x).getTime(): NaN for an Invalid Date
DateTime(x) ==
    CASE x.t = "date" -> Num(x.v)
      [] x.t = "num" -> Num(x.v)
      [] x.t = "null" -> Num(0)
      [] OTHER -> NaN

----------------------------------------------------------------------------
(* Array.prototype.sort with a comparator (a, b) => key(a) - key(b).       *)
(* The keys are JavaScript numbers; a NaN key makes the comparator return  *)
(* NaN, which sort takes as 0.                                             *)

\* what sort makes of the comparator's result for keys ka, kb (ascending)
Compare(ka, kb) == IF ka.t = "nan" \/ kb.t = "nan" THEN 0 ELSE ka.v - kb.v

CompareIn(keys, desc, i, j) ==
    IF desc THEN Compare(keys[j], keys[i]) ELSE Compare(keys[i], keys[j])

\* ECMAScript's "consistent comparison function" for these elements
ConsistentComparator(keys, desc) ==
    LET D == 1..Len(keys)
        c == [i \in D, j \in D |-> CompareIn(keys, desc, i, j)]
    IN  /\ \A i \in D, j \in D : (c[i, j] < 0) <=> (c[j, i] > 0)
        /\ \A i \in D, j \in D :
               \/ c[i, j] > 0
               \/ \A k \in D :
                      /\ (c[i, j] = 0 /\ c[j, k] = 0) => c[i, k] = 0
                      /\ (c[i, j] < 0 /\ c[j, k] < 0) => c[i, k] < 0

InsertSortedUnstable(keys, desc, s, k) ==
    LET after == {p \in 1..Len(s) : CompareIn(keys, desc, k, s[p]) > 0}
        pos == IF after = {} THEN 0 ELSE CHOOSE p \in after : \A q \in after : q <= p
    IN  SubSeq(s, 1, pos) \o <<k>> \o SubSeq(s, pos + 1, Len(s))

\* insert index k into the sorted index list s, after the last element it is
\* not smaller than (a stable insertion)
InsertSorted(keys, desc, s, k) ==
    LET after == {p \in 1..Len(s) : CompareIn(keys, desc, k, s[p]) >= 0}
        pos == IF after = {} THEN 0 ELSE CHOOSE p \in after : \A q \in after : q <= p
    IN  SubSeq(s, 1, pos) \o <<k>> \o SubSeq(s, pos + 1, Len(s))

RECURSIVE StableSort(_, _, _)
StableSort(keys, desc, k) ==
    IF k = 0 THEN <<>>
    ELSE InsertSorted(keys, desc, StableSort(keys, desc, k - 1), k)

IndexPermutations(m) == {p \in [1..m -> 1..m] : \A i, j \in 1..m : p[i] = p[j] => i = j}

\* the orders sort can leave the elements in, as lists of indices into the
\* input: the stable order for a consistent comparator, and an
\* implementation-defined order otherwise
SortOrders(keys, desc) ==
    IF ConsistentComparator(keys, desc) THEN {StableSort(keys, desc, Len(keys))}
    ELSE IndexPermutations(Len(keys))

Reorder(s, order) == [i \in 1..Len(s) |-> s[order[i]]]

----------------------------------------------------------------------------
(* Rating-window engine: computeEloChangeLastN *)

\* .slice(0, k)
Slice(s, k) == SubSeq(s, 1, IF k < Len(s) THEN k ELSE Len(s))

RECURSIVE SumEloChange(_)
SumEloChange(gs) ==
    IF gs = <<>> THEN 0
    ELSE Coalesce(gs[1].eloChange, Num(0)).v + SumEloChange(Tail(gs))

\* new Date(game.date || 0).getTime()
GameTime(g) == DateTime(IF Truthy(g.date) THEN g.date ELSE Num(0))

HistoryDeltaOffByOne(h, k) ==
    IF Len(h) = 0 \/ k = 0 THEN 0
    ELSE IF Len(h) <= k THEN MathRound(h[Len(h)].elo - h[1].elo)
    ELSE MathRound(h[Len(h)].elo - h[Len(h) - k + 1].elo)

HistoryDelta(h, k) ==
    IF Len(h) = 0 THEN 0
    ELSE IF Len(h) <= k THEN MathRound(h[Len(h)].elo - h[1].elo)
    ELSE LET fromIdx == Len(h) - k - 1
             start == IF fromIdx + 1 \in 1..Len(h) THEN h[fromIdx + 1].elo ELSE h[1].elo
             end == h[Len(h)].elo
         IN  MathRound(end - start)

\* the results computeEloChangeLastN can return: one, unless the comparator
\* of the sort is inconsistent on these games
computeEloChangeLastN(h, gs, k) ==
    IF Len(gs) > 0
    THEN LET keys == [i \in 1..Len(gs) |-> GameTime(gs[i])]
         IN  {MathRound(SumEloChange(Slice(Reorder(gs, order), k))) :
                  order \in SortOrders(keys, TRUE)}
    ELSE {HistoryDelta(h, k)}

----------------------------------------------------------------------------
(* Record normalizer: mapEloHistory, mapGameHistory, ensureHistory, mapTeam *)
(* A raw array field is [kind, list]: kind "undefined" when the field is   *)
(* missing, "object" when it holds something that is not an array, "list". *)

IsArray(a) == a.kind = "list"

Filter(s, Keep(_)) ==
    LET F[i \in 0..Len(s)] ==
            IF i = 0 THEN <<>> ELSE IF Keep(s[i]) THEN Append(F[i - 1], s[i]) ELSE F[i - 1]
    IN  F[Len(s)]

\* the histories mapEloHistory can return (one, unless the sort's comparator
\* is inconsistent on the dates)
mapEloHistory(elo) ==
    IF ~elo.present \/ elo.history.kind = "undefined" \/ ~IsArray(elo.history) THEN {<<>>}
    ELSE LET HasDate(point) == Truthy(point.date)
             kept == Filter(elo.history.list, HasDate)
             mapped == [i \in 1..Len(kept) |->
                           [date |-> kept[i].date,
                            elo |-> Coalesce(roundNumber(kept[i].elo), Num(0)).v]]
             keys == [i \in 1..Len(kept) |-> DateTime(mapped[i].date)]
         IN  {Reorder(mapped, order) : order \in SortOrders(keys, FALSE)}

mapGameHistory(rawGames) ==
    IF rawGames.kind = "undefined" \/ ~IsArray(rawGames) THEN {<<>>}
    ELSE LET keys == [i \in 1..Len(rawGames.list) |-> DateTime(rawGames.list[i].date)]
             \* score, the string `${team}-${opponent}`, is kept as its two numbers
             Map(game) == [score |-> [team |-> Coalesce(roundNumber(game.teamScore), Num(0)),
                                      opponent |-> Coalesce(roundNumber(game.opponentScore), Num(0))],
                           result |-> IF game.result = "W" THEN "W" ELSE "L",
                           eloChange |-> Coalesce(roundNumber(game.eloChange), Num(0)),
                           date |-> game.date]
         IN  {[i \in 1..Len(rawGames.list) |-> Map(rawGames.list[order[i]])] :
                  order \in SortOrders(keys, TRUE)}

ensureHistoryAsIs(h, elo, today) == h
ensureHistoryAtZero(h, elo, today) ==
    IF Len(h) # 0 THEN h ELSE <<[date |-> Date(today), elo |-> 0]>>

ensureHistory(h, elo, today) ==
    IF Len(h) # 0 THEN h ELSE <<[date |-> Date(today), elo |-> elo]>>

\* mapTeamStats, for one statistic and its rank (every statistic and rank
\* of the record is mapped the same way)
mapTeamStats(stats) ==
    IF ~stats.present THEN [present |-> FALSE, offRating |-> Undefined,
                            offRatingRank |-> Undefined]
    ELSE [present |-> TRUE,
          offRating |-> Coalesce(asNumber(stats.offRating), Num(0)),
          offRatingRank |-> Coalesce(roundNumber(stats.offRatingRank), Num(0))]

\* normalizeCategories, for one category
normalizeCategories(rawCategories) ==
    IF ~rawCategories.present THEN [present |-> FALSE, offense |-> Undefined]
    ELSE [present |-> TRUE, offense |-> Coalesce(roundNumber(rawCategories.offense), Num(0))]

\* raw.elo?.current
RawCurrent(r) == IF r.elo.present THEN r.elo.current ELSE Undefined

\* the teams mapTeam can return for a raw record, on the day today
mapTeam(r, today) ==
    UNION { UNION { { [elo |-> Coalesce(Coalesce(roundNumber(RawCurrent(r)),
                                                 Num(h[Len(h)].elo)), Num(0)).v,
                       eloChangeLast5 |-> d,
                       eloHistory |-> h,
                       gameHistory |-> gameHistory] :
                      d \in computeEloChangeLastN(h, gameHistory, 5) } :
                    gameHistory \in mapGameHistory(r.games) } :
            h \in { ensureHistory(m, Coalesce(roundNumber(RawCurrent(r)), Num(0)).v, today) :
                      m \in mapEloHistory(r.elo) } }

----------------------------------------------------------------------------
(* Cohort ranking: rankTeams ranks the module's TEAMS on one statistic and *)
(* writes each rank into the team's teamStats.  A team is                  *)
(* [id, teamStats], teamStats is [present, offRating, offRatingRank].      *)

\* the indices of the elements of s that Keep keeps, in order
FilterIndices(s, Keep(_)) ==
    LET F[i \in 0..Len(s)] ==
            IF i = 0 THEN <<>> ELSE IF Keep(s[i]) THEN Append(F[i - 1], i) ELSE F[i - 1]
    IN  F[Len(s)]

HasTeamStats(t) == t.teamStats.present

\* (a.teamStats as any)?.[key] ?? 0
StatOrZero(t) ==
    Coalesce(IF t.teamStats.present THEN t.teamStats.offRating ELSE Undefined, Num(0))

\* sorted.forEach((team, idx) => team.teamStats[rankKey] = idx + 1), on the
\* list of indices into T that the sort produced
AssignRanks(T, sortedIdx) ==
    [i \in 1..Len(T) |->
        IF \E q \in 1..Len(sortedIdx) : sortedIdx[q] = i
        THEN [T[i] EXCEPT !.teamStats.offRatingRank =
                  CHOOSE q \in 1..Len(sortedIdx) : sortedIdx[q] = i]
        ELSE T[i]]

\* sorts the table itself, with a sort that is not stable
rankTeamsInPlaceUnstable(T, ascending) ==
    LET keys == [p \in 1..Len(T) |-> StatOrZero(T[p])]
        RECURSIVE Unstable(_)
        Unstable(k) == IF k = 0 THEN <<>>
                       ELSE InsertSortedUnstable(keys, ~ascending, Unstable(k - 1), k)
        moved == Reorder(T, Unstable(Len(T)))
    IN  {[i \in 1..Len(T) |-> [moved[i] EXCEPT !.teamStats.offRatingRank = i]]}

\* the tables rankTeams can leave
rankTeams(T, ascending) ==
    LET kept == FilterIndices(T, HasTeamStats)
        keys == [p \in 1..Len(kept) |-> StatOrZero(T[kept[p]])]
    IN  {AssignRanks(T, [q \in 1..Len(kept) |-> kept[order[q]]]) :
             order \in SortOrders(keys, ~ascending)}

(* TeamDetail's categoryRanks, for one category key: the rank of the team  *)
(* with id teamId among allTeams, or no entry.                             *)

NoRank == [present |-> FALSE, rank |-> 0]

HasCategory(t) ==
    t.categoryRatings.present /\ TypeofNumber(t.categoryRatings.offense)

\* a.categoryRatings?.[key] ?? 0
CategoryOrZero(t) ==
    Coalesce(IF t.categoryRatings.present THEN t.categoryRatings.offense ELSE Undefined,
             Num(0))

\* sorted.findIndex(t => t.id === teamId), 1-based, 0 when there is none
FindIndexOfId(ts, teamId) ==
    IF \E q \in 1..Len(ts) : ts[q].id = teamId
    THEN CHOOSE q \in 1..Len(ts) :
             ts[q].id = teamId /\ \A r \in 1..(q - 1) : ts[r].id # teamId
    ELSE 0

categoryRanks(allTeams, teamId) ==
    IF Len(allTeams) = 0 THEN {NoRank}
    ELSE LET kept == FilterIndices(allTeams, HasCategory)
             keys == [p \in 1..Len(kept) |-> CategoryOrZero(allTeams[kept[p]])]
         IN  { LET sorted == [q \in 1..Len(kept) |-> allTeams[kept[order[q]]]]
                   rank == FindIndexOfId(sorted, teamId)
               IN  IF rank >= 1 THEN [present |-> TRUE, rank |-> rank] ELSE NoRank :
                 order \in SortOrders(keys, TRUE) }

----------------------------------------------------------------------------
(* Composite rating engine: sanitizeRating, getPlayerCategoryRatings.      *)
(* A player is [perCategory, skills, rating]: perCategory is               *)
(* [present, value], present when player.detail.ratings.perCategory        *)
(* exists; skills is [present, value].                                     *)

CategoryKeys == {"sco", "ply", "reb", "def", "hst", "imp"}
SkillKeys == {"shooting", "defense", "playmaking", "athleticism", "rebounding"}

\* the fallback of each category: a skill, or "rating" for fallbackToRating
CATEGORY_CONFIG_Shifted ==
    [sco |-> "playmaking", ply |-> "rebounding", reb |-> "defense", def |-> "athleticism",
     hst |-> "shooting", imp |-> "rating"]

CATEGORY_CONFIG ==
    [sco |-> "shooting", ply |-> "playmaking", reb |-> "rebounding", def |-> "defense",
     hst |-> "athleticism", imp |-> "rating"]

Max(a, b) == IF a > b THEN a ELSE b
Min(a, b) == IF a < b THEN a ELSE b

sanitizeRatingUnclamped(value, fallback) ==
    IF TypeofNumber(value) /\ IsFinite(value) THEN MathRound(value.v) ELSE fallback

sanitizeRating(value, fallback) ==
    IF TypeofNumber(value) /\ IsFinite(value)
    THEN Max(Int10(1), Min(Int10(99), MathRound(value.v)))
    ELSE fallback

getPlayerCategoryRatings(p) ==
    [key \in CategoryKeys |->
        LET perCategoryValue == IF p.perCategory.present THEN p.perCategory.value[key]
                                ELSE Undefined
            fallbackSkillValue ==
                IF CATEGORY_CONFIG[key] \in SkillKeys
                THEN (IF p.skills.present THEN p.skills.value[CATEGORY_CONFIG[key]]
                      ELSE Undefined)
                ELSE Undefined
            fallback == IF CATEGORY_CONFIG[key] = "rating" THEN p.rating
                        ELSE fallbackSkillValue
        IN  sanitizeRating(perCategoryValue, sanitizeRating(fallback, Int10(60)))]

----------------------------------------------------------------------------
(* Comparison chart and trend filter: chartData of TeamComparisonEloChart, *)
(* filteredEloHistory of TeamDetail.  A team is                            *)
(* [name, conference, eloHistory]; a time is counted in hours, the date    *)
(* string of day d parses to UTC midnight, 24 * d.                         *)

\* new Date(point.date).getTime(), in hours
PointTime(point) == 24 * DateTime(point.date).v

\* teams.flatMap(t => t.eloHistory)
RECURSIVE FlatHistories(_)
FlatHistories(ts) ==
    IF ts = <<>> THEN <<>> ELSE ts[1].eloHistory \o FlatHistories(Tail(ts))

\* Math.max(...points.map(p => new Date(p.date).getTime()))
LatestTime(points) ==
    CHOOSE t \in {PointTime(points[i]) : i \in 1..Len(points)} :
        \A i \in 1..Len(points) : PointTime(points[i]) <= t

\* timeRange === 'week' ? 7 : 30
DaysToFilter(range) == IF range = "week" THEN 7 ELSE 30

\* cutoffDate.setDate(latestDate.getDate() - daysToFilter + 1): the same
\* local wall-clock time daysToFilter - 1 local days earlier; shift is the
\* client's UTC offset at latest minus its UTC offset at the result
CutoffTime(latest, range, shift) == latest - 24 * (DaysToFilter(range) - 1) + shift

\* pointDate >= cutoffDate && pointDate <= latestDate
InWindow(point, latest, range, shift) ==
    /\ PointTime(point) >= CutoffTime(latest, range, shift)
    /\ PointTime(point) <= latest

\* Array.from(allDates).sort(by time): distinct dates, ascending
RECURSIVE SortedDates(_)
SortedDates(S) ==
    IF S = {} THEN <<>>
    ELSE LET first == CHOOSE d \in S : \A e \in S : DateTime(d).v <= DateTime(e).v
         IN  <<first>> \o SortedDates(S \ {first})

\* new Map(team.eloHistory.map(p => [p.date, p.elo])).get(date): the last
\* point of that date, or undefined
LookupElo(t, date) ==
    LET at == {i \in 1..Len(t.eloHistory) : t.eloHistory[i].date = date}
    IN  IF at = {} THEN Undefined
        ELSE Num(t.eloHistory[CHOOSE i \in at : \A j \in at : j <= i].elo)

\* teamEloLookups.get(team.name)?.get(date): the map stored last under the name
LookupByName(ts, name, date) ==
    LET named == {i \in 1..Len(ts) : ts[i].name = name}
    IN  LookupElo(ts[CHOOSE i \in named : \A j \in named : j <= i], date)

\* count ? Math.round(sum / count) : null
MeanOrNullTruncated(sum, count) ==
    IF count # 0 THEN Num((sum \div (10 * count)) * 10) ELSE Null
MeanOrNullZero(sum, count) ==
    IF count # 0 THEN Num(((2 * sum + 10 * count) \div (20 * count)) * 10) ELSE Num(0)

MeanOrNull(sum, count) ==
    IF count # 0 THEN Num(((2 * sum + 10 * count) \div (20 * count)) * 10) ELSE Null

RECURSIVE SumOver(_, _)
SumOver(S, f) ==
    IF S = {} THEN 0 ELSE LET x == CHOOSE y \in S : TRUE IN f[x] + SumOver(S \ {x}, f)

\* one row of the chart
DataPoint(ts, date) ==
    LET value == [i \in 1..Len(ts) |-> LookupByName(ts, ts[i].name, date)]
        hasValue == {i \in 1..Len(ts) : TypeofNumber(value[i]) /\ value[i].t # "nan"}
        east == {i \in hasValue : ts[i].conference = "East"}
        west == hasValue \ east
        v == [i \in 1..Len(ts) |-> value[i].v]
    IN  [date |-> date,
         team |-> [i \in 1..Len(ts) |-> IF i \in hasValue THEN value[i] ELSE Null],
         league |-> MeanOrNull(SumOver(hasValue, v), Cardinality(hasValue)),
         west |-> MeanOrNull(SumOver(west, v), Cardinality(west)),
         east |-> MeanOrNull(SumOver(east, v), Cardinality(east))]

chartDataOf(ts, range, shift) ==
    IF Len(ts) = 0 THEN <<>>
    ELSE LET allHistories == FlatHistories(ts)
         IN  IF Len(allHistories) = 0 THEN <<>>
             ELSE LET latest == LatestTime(allHistories)
                      allDates ==
                          {allHistories[i].date : i \in
                              {j \in 1..Len(allHistories) :
                                  range = "season"
                                  \/ InWindow(allHistories[j], latest, range, shift)}}
                      sortedDates == SortedDates(allDates)
                  IN  [k \in 1..Len(sortedDates) |-> DataPoint(ts, sortedDates[k])]

\* TeamDetail's filteredEloHistory for the history h of the team shown
filteredEloHistory(h, range, shift) ==
    IF Len(h) = 0 THEN <<>>
    ELSE IF range = "season" THEN h
    ELSE LET latest == LatestTime(h)
             Keep(point) == InWindow(point, latest, range, shift)
         IN  Filter(h, Keep)

----------------------------------------------------------------------------
(* parseRecord.  A string is a sequence of characters; the raw record is   *)
(* [present, chars], the seed a JavaScript value.                          *)

Digits == {"0", "2", "4", "8"}
DigitOf == [c \in Digits |-> CASE c = "0" -> 0 [] c = "2" -> 2 [] c = "4" -> 4 [] c = "8" -> 8]

\* Number(digits) for a string of decimal digits
RECURSIVE DigitsValue(_)
DigitsValue(ds) ==
    IF ds = <<>> THEN 0
    ELSE 10 * DigitsValue(SubSeq(ds, 1, Len(ds) - 1)) + DigitOf[ds[Len(ds)]]

\* the end of the longest run of characters of set C that starts at i
\* (i - 1 when s[i] is not in C): what a greedy C* consumes from i
RunEnd(s, i, C) ==
    LET ends == {j \in (i - 1)..Len(s) : \A k \in i..j : s[k] \in C}
    IN  CHOOSE j \in ends : \A k \in ends : k <= j

\* the match of /(\d+)\s*-\s*(\d+)/ that starts at i, as [found, wins, losses]
NoMatch == [found |-> FALSE, first |-> <<>>, second |-> <<>>]
MatchAt(s, i) ==
    LET j == RunEnd(s, i, Digits)
        k == RunEnd(s, j + 1, {" "}) + 1
        m == RunEnd(s, k + 1, {" "}) + 1
        e == RunEnd(s, m, Digits)
    IN  IF j >= i /\ k <= Len(s) /\ s[k] = "-" /\ e >= m
        THEN [found |-> TRUE, first |-> SubSeq(s, i, j), second |-> SubSeq(s, m, e)]
        ELSE NoMatch

\* raw.match(...): the leftmost match
RegexMatch(s) ==
    LET starts == {i \in 1..Len(s) : MatchAt(s, i).found}
    IN  IF starts = {} THEN NoMatch
        ELSE MatchAt(s, CHOOSE i \in starts : \A k \in starts : i <= k)

NoRecord == [present |-> FALSE, wins |-> 0, losses |-> 0, conferenceRank |-> Undefined,
             seed |-> Undefined]

\* seed ? { wins: 0, losses: 0, conferenceRank: seed, seed, raw } : undefined
PlaceholderRecord(seed) ==
    IF Truthy(seed)
    THEN [present |-> TRUE, wins |-> 0, losses |-> 0, conferenceRank |-> seed, seed |-> seed]
    ELSE NoRecord

parseRecordSwapped(rawRecord, seed) ==
    IF ~rawRecord.present \/ rawRecord.chars = <<>> THEN PlaceholderRecord(seed)
    ELSE LET match == RegexMatch(rawRecord.chars)
         IN  IF ~match.found THEN PlaceholderRecord(seed)
             ELSE [present |-> TRUE, wins |-> DigitsValue(match.second),
                   losses |-> DigitsValue(match.first),
                   conferenceRank |-> Coalesce(seed, Num(0)), seed |-> seed]

parseRecord(rawRecord, seed) ==
    IF ~rawRecord.present \/ rawRecord.chars = <<>> THEN PlaceholderRecord(seed)
    ELSE LET match == RegexMatch(rawRecord.chars)
         IN  IF ~match.found THEN PlaceholderRecord(seed)
             ELSE LET conferenceRank == Coalesce(seed, Undefined)
                  IN  [present |-> TRUE, wins |-> DigitsValue(match.first),
                       losses |-> DigitsValue(match.second),
                       conferenceRank |-> Coalesce(conferenceRank, Num(0)),
                       seed |-> Coalesce(conferenceRank, seed)]

----------------------------------------------------------------------------
(* normalizeConference and pickColor.  A string argument is                *)
(* [present, chars]; present is FALSE for a missing value.                 *)

\* the letters the conference and abbreviation strings are drawn from, as
\* <<lower case, upper case>>
LetterPairs == {<<"w", "W">>, <<"e", "E">>, <<"s", "S">>, <<"t", "T">>, <<"a", "A">>,
                <<"b", "B">>, <<"o", "O">>, <<"n", "N">>}

\* String.prototype.toLowerCase and toUpperCase, character by character
LowerChar(c) == IF \E lp \in LetterPairs : lp[2] = c
                THEN (CHOOSE lp \in LetterPairs : lp[2] = c)[1] ELSE c
UpperChar(c) == IF \E lp \in LetterPairs : lp[1] = c
                THEN (CHOOSE lp \in LetterPairs : lp[1] = c)[2] ELSE c
toLowerCase(cs) == [i \in 1..Len(cs) |-> LowerChar(cs[i])]
toUpperCase(cs) == [i \in 1..Len(cs) |-> UpperChar(cs[i])]

\* String.prototype.includes
Includes(cs, part) ==
    \E i \in 1..(Len(cs) - Len(part) + 1) : SubSeq(cs, i, i + Len(part) - 1) = part

\* value || ''
OrEmpty(value) == IF value.present THEN value.chars ELSE <<>>

normalizeConferenceCaseSensitive(value) ==
    IF Includes(OrEmpty(value), <<"w", "e", "s", "t">>) THEN "West" ELSE "East"

normalizeConference(value) ==
    IF Includes(toLowerCase(OrEmpty(value)), <<"w", "e", "s", "t">>) THEN "West" ELSE "East"

TEAM_COLORS ==
    <<"A", "T", "L">> :> "#E03A3E" @@
    <<"B", "O", "S">> :> "#007A33" @@
    <<"B", "K", "N">> :> "#000000" @@
    <<"C", "H", "A">> :> "#1D1160" @@
    <<"C", "H", "I">> :> "#CE1141" @@
    <<"C", "L", "E">> :> "#860038" @@
    <<"D", "A", "L">> :> "#00538C" @@
    <<"D", "E", "N">> :> "#0E2240" @@
    <<"D", "E", "T">> :> "#C8102E" @@
    <<"G", "S", "W">> :> "#1D428A" @@
    <<"H", "O", "U">> :> "#CE1141" @@
    <<"I", "N", "D">> :> "#002D62" @@
    <<"L", "A", "C">> :> "#C8102E" @@
    <<"L", "A", "L">> :> "#552583" @@
    <<"M", "E", "M">> :> "#5D76A9" @@
    <<"M", "I", "A">> :> "#98002E" @@
    <<"M", "I", "L">> :> "#00471B" @@
    <<"M", "I", "N">> :> "#0C2340" @@
    <<"N", "O", "P">> :> "#0C2340" @@
    <<"N", "Y", "K">> :> "#006BB6" @@
    <<"O", "K", "C">> :> "#007AC1" @@
    <<"O", "R", "L">> :> "#0077C0" @@
    <<"P", "H", "I">> :> "#006BB6" @@
    <<"P", "H", "X">> :> "#1D1160" @@
    <<"P", "O", "R">> :> "#E03A3E" @@
    <<"S", "A", "C">> :> "#5A2D81" @@
    <<"S", "A", "S">> :> "#C4CED4" @@
    <<"T", "O", "R">> :> "#CE1141" @@
    <<"U", "T", "A">> :> "#002B5C" @@
    <<"W", "A", "S">> :> "#002B5C"

FALLBACK_COLORS ==
    <<"#f97316", "#ef4444", "#22c55e", "#eab308", "#a855f7", "#ec4899",
      "#14b8a6", "#3b82f6", "#6366f1", "#84cc16", "#d946ef", "#0ea5e9">>

pickColorByLength(abbreviation, index) ==
    LET key == toUpperCase(OrEmpty(abbreviation))
    IN  IF key \in DOMAIN TEAM_COLORS THEN TEAM_COLORS[key]
        ELSE FALLBACK_COLORS[(Len(key) % Len(FALLBACK_COLORS)) + 1]

pickColor(abbreviation, index) ==
    LET key == toUpperCase(OrEmpty(abbreviation))
    IN  IF key \in DOMAIN TEAM_COLORS THEN TEAM_COLORS[key]
        ELSE FALLBACK_COLORS[(index % Len(FALLBACK_COLORS)) + 1]

----------------------------------------------------------------------------
(* Bounds and input domains *)

MaxHist == 5
MaxN == 5
MaxGames == 3
MaxRawPoints == 2
MaxRawGames == 1
MaxDay == 2
MaxTeams == 3
MaxChartTeams == 2
MaxRecordLen == 5
MaxTenths == 25
MaxHistoryPoints == 3
MaxConferenceLen == 5
MaxAbbreviationLen == 3
MaxIndex == 13

SeqsUpTo(S, m) == UNION {[1..k -> S] : k \in 0..m}

\* the ratings of the specification's scenario, in tenths
ExampleElos == {14900, 15000, 15100, 15200, 15300}
ExampleHistory ==
    << [date |-> Date(1), elo |-> 15000], [date |-> Date(2), elo |-> 15100],
       [date |-> Date(3), elo |-> 14900], [date |-> Date(4), elo |-> 15200],
       [date |-> Date(5), elo |-> 15300] >>

\* rating histories as the normalizer leaves them: integer ratings, one day apart
Histories ==
    {[i \in 1..Len(es) |-> [date |-> Date(i), elo |-> es[i]]] :
        es \in SeqsUpTo(ExampleElos, MaxHist)}

\* game logs: a parseable date, no date, or a date string that does not
\* parse; a rating change that is missing, fractional or an integer
GameDates == {Date(1), Date(2), Date(3), Undefined, Text}
EloChanges == {Undefined, Num(-15), Num(20), Num(-30)}
GameLogs == SeqsUpTo([date : GameDates, eloChange : EloChanges], MaxGames) \ {<<>>}

\* the history that records the rating after each game of gs, for games on
\* distinct parseable dates with integer changes, from a rating of 1500
DatedLog(gs) ==
    /\ \A i \in 1..Len(gs) : gs[i].date.t = "date" /\ gs[i].eloChange.t = "num"
                             /\ gs[i].eloChange.v % 10 = 0
    /\ \A i, j \in 1..Len(gs) : gs[i].date = gs[j].date => i = j

RECURSIVE RatingAfter(_, _)
RatingAfter(gs, d) ==
    IF gs = <<>> THEN 15000
    ELSE (IF gs[1].date.v <= d THEN gs[1].eloChange.v ELSE 0) + RatingAfter(Tail(gs), d)

HistoryOfLog(gs) ==
    LET days == {gs[i].date.v : i \in 1..Len(gs)}
        nth(k) == CHOOSE d \in days : Cardinality({e \in days : e <= d}) = k
    IN  [k \in 1..Len(gs) |-> [date |-> Date(nth(k)), elo |-> RatingAfter(gs, nth(k))]]

HistoryChoices(gs) ==
    {<<>>, ExampleHistory} \cup (IF DatedLog(gs) THEN {HistoryOfLog(gs)} ELSE {})

----------------------------------------------------------------------------
(* Specifications of the rating-window engine *)

NoElo == [present |-> FALSE, current |-> Undefined,
          history |-> [kind |-> "undefined", list |-> <<>>]]
NoRaw == [elo |-> NoElo, games |-> [kind |-> "undefined", list |-> <<>>]]
NoTeam == [elo |-> 0, eloChangeLast5 |-> 0, eloHistory |-> <<>>, gameHistory |-> <<>>]

IdleDelta == history = <<>> /\ games = <<>> /\ n = 0 /\ delta = 0
IdleTeam == raw = NoRaw /\ team = NoTeam
NoPlayer == [perCategory |-> [present |-> FALSE, value |-> [k \in CategoryKeys |-> Undefined]],
             skills |-> [present |-> FALSE, value |-> [k \in SkillKeys |-> Undefined]],
             rating |-> Undefined]
NoRatings == [k \in CategoryKeys |-> 0]
IdlePlayer == player = NoPlayer /\ ratings = NoRatings
IdleChart == /\ teams = <<>> /\ timeRange = "season" /\ zoneShift = 0
             /\ chartData = <<>> /\ shown = 0 /\ filtered = <<>>
IdleHelper == arg = Undefined /\ result = Undefined
Pending == [kind |-> "pending", data |-> 0]
IdleLoad == /\ loader = "none" /\ responses = <<>> /\ requested = <<>> /\ mappedUrls = {}
            /\ lastError = 0 /\ outcome = Pending
NoFetch == [teams |-> [kind |-> "none", list |-> <<>>], summary |-> [kind |-> "none"]]
IdleApp == /\ app = [teams |-> <<>>, dailySummary |-> 0, selectedTeam |-> Null,
                     isLoading |-> TRUE, error |-> Null]
           /\ fetched = NoFetch /\ loads = 0 /\ effectDue = FALSE
IdleTable == /\ filteredPlayers = <<>> /\ sortKey = "overall" /\ sortDir = "desc"
             /\ sortedPlayers = <<>>
IdleRank == /\ TEAMS = <<>> /\ rankedBy = "none" /\ reranked = FALSE
            /\ selected = 0 /\ categoryRank = NoRank

InitHistoryDelta ==
    /\ IdleTable /\ IdleLoad /\ IdleApp /\ IdleTeam /\ IdleRank /\ IdlePlayer /\ IdleChart /\ IdleHelper
    /\ pc = "start"
    /\ history \in Histories
    /\ games = <<>>
    /\ n \in 0..MaxN
    /\ delta = 0

InitGameDelta ==
    /\ IdleTable /\ IdleLoad /\ IdleApp /\ IdleTeam /\ IdleRank /\ IdlePlayer /\ IdleChart /\ IdleHelper
    /\ pc = "start"
    /\ games \in GameLogs
    /\ history \in HistoryChoices(games)
    /\ n \in 0..(MaxGames + 1)
    /\ delta = 0

ComputeEloChange ==
    /\ pc = "start"
    /\ delta' \in computeEloChangeLastN(history, games, n)
    /\ pc' = "delta"
    /\ UNCHANGED <<tableVars, loadVars, appVars, history, games, n, teamVars, rankVars, detailVars, playerVars, chartVars, helperVars>>

SpecHistoryDelta == InitHistoryDelta /\ [][ComputeEloChange]_vars
SpecGameDelta == InitGameDelta /\ [][ComputeEloChange]_vars

----------------------------------------------------------------------------
(* C1: with no games, the trailing delta is 0 for an empty history, last  *)
(* minus first for a history of n or fewer points, and last minus the      *)
(* point at index length - n - 1 otherwise (never an index before the      *)
(* start); the history 1500, 1510, 1490, 1520, 1530 gives 30 for n = 5 and *)
(* 40 for n = 2.                                                           *)
C1_HistoryStrategy ==
    (pc = "delta" /\ games = <<>>) =>
        LET len == Len(history)
        IN  /\ len = 0 => delta = 0
            /\ (len > 0 /\ len <= n) => delta = history[len].elo - history[1].elo
            /\ len > n => /\ len - n - 1 >= 0
                          /\ delta = history[len].elo - history[(len - n - 1) + 1].elo
            /\ history = ExampleHistory =>
                   /\ n = 5 => delta = Int10(30)
                   /\ n = 2 => delta = Int10(40)

C1_Witness ==
    pc = "delta" /\ games = <<>> /\ history = ExampleHistory /\ n = 2 /\ delta = Int10(40)

----------------------------------------------------------------------------
(* C2: with at least one game, the trailing delta is the rounded sum of    *)
(* the rating changes of the n most recent games by date (of all games     *)
(* when there are fewer than n), whatever the rating history is.           *)

RECURSIVE SumOfChanges(_, _)
SumOfChanges(gs, S) ==
    IF S = {} THEN 0
    ELSE LET i == CHOOSE x \in S : TRUE
         IN  (IF gs[i].eloChange.t = "num" THEN gs[i].eloChange.v ELSE 0)
             + SumOfChanges(gs, S \ {i})

\* S holds the m most recent games: no game outside S is dated after a game in S
MostRecent(gs, S, m) ==
    /\ Cardinality(S) = (IF m < Len(gs) THEN m ELSE Len(gs))
    /\ \A i \in S, j \in (1..Len(gs)) \ S :
           (gs[i].date.t = "date" /\ gs[j].date.t = "date") => gs[i].date.v >= gs[j].date.v

IsRounded(x, of) == x % 10 = 0 /\ x - of <= 5 /\ of - x <= 5

C2_GameLogStrategy ==
    (pc = "delta" /\ Len(games) > 0) =>
        \E S \in SUBSET (1..Len(games)) :
            MostRecent(games, S, n) /\ IsRounded(delta, SumOfChanges(games, S))

\* the same, for game logs in which every date is parseable or missing
C2_ParseableDates ==
    (pc = "delta" /\ Len(games) > 0 /\ \A i \in 1..Len(games) : games[i].date.t # "text") =>
        \E S \in SUBSET (1..Len(games)) :
            MostRecent(games, S, n) /\ IsRounded(delta, SumOfChanges(games, S))

----------------------------------------------------------------------------
(* C3: the game-log strategy and the history-series strategy agree on a    *)
(* consistent team: one history point per game holding the rating after    *)
(* that game, each game's change being the change from the previous        *)
(* rating; for every n >= 1 and any number of games.                       *)

ConsistentLog(h, gs) == DatedLog(gs) /\ h = HistoryOfLog(gs)

HistoryStrategy(h, k) == CHOOSE d \in computeEloChangeLastN(h, <<>>, k) : TRUE

C3_StrategiesAgree ==
    (pc = "delta" /\ Len(games) > 0 /\ ConsistentLog(history, games) /\ n >= 1) =>
        delta = HistoryStrategy(history, n)

\* they do agree when there are more games than n
C3_AgreeOnLongLogs ==
    (pc = "delta" /\ Len(games) > n /\ ConsistentLog(history, games) /\ n >= 1) =>
        delta = HistoryStrategy(history, n)

----------------------------------------------------------------------------
(* Specification of the normalizer: a raw team record arrives, mapTeam     *)
(* maps it.                                                                *)

RawNumbers == {Undefined, Null, NaN, PosInf, Num(15004), Num(14996), Str(15100), Blank, Text, Bool}
RawDates == {Date(1), Date(2), Undefined, Text}
RawArrays(S, m) ==
    {[kind |-> "undefined", list |-> <<>>], [kind |-> "object", list |-> <<>>]}
        \cup {[kind |-> "list", list |-> l] : l \in SeqsUpTo(S, m)}
RawPoints == [date : RawDates, elo : {Num(14996), Undefined}]
RawGameRecords ==
    [date : RawDates, eloChange : {Num(25), Undefined},
     teamScore : {Num(1100)}, opponentScore : {Num(1040)}, result : {"W"}]
RawElos ==
    {NoElo} \cup [present : {TRUE}, current : RawNumbers,
                  history : RawArrays(RawPoints, MaxRawPoints)]
RawTeams == [elo : RawElos, games : RawArrays(RawGameRecords, MaxRawGames)]

InitTeam ==
    /\ IdleTable /\ IdleLoad /\ IdleApp /\ IdleDelta /\ IdleRank /\ IdlePlayer /\ IdleChart /\ IdleHelper
    /\ pc = "raw"
    /\ raw \in RawTeams
    /\ team = NoTeam

MapTeam ==
    /\ pc = "raw"
    /\ \E today \in 1..MaxDay : team' \in mapTeam(raw, today)
    /\ pc' = "mapped"
    /\ UNCHANGED <<tableVars, loadVars, appVars, raw, deltaVars, rankVars, detailVars, playerVars, chartVars, helperVars>>

SpecTeam == InitTeam /\ [][MapTeam]_vars

----------------------------------------------------------------------------
(* C9: after mapTeam the rating history has at least one point, also when  *)
(* the raw history is missing, empty, not a list, or holds only points     *)
(* without a date.                                                         *)
C9_HistoryNonEmpty == pc = "mapped" => Len(team.eloHistory) >= 1

\* the raw record yields no dated point
NoDatedPoint(r) ==
    \/ ~r.elo.present
    \/ r.elo.history.kind # "list"
    \/ \A i \in 1..Len(r.elo.history.list) : ~Truthy(r.elo.history.list[i].date)

C9_Witness ==
    /\ pc = "mapped" /\ raw.elo.present /\ raw.elo.history.kind = "list"
    /\ Len(raw.elo.history.list) = MaxRawPoints /\ NoDatedPoint(raw)
    /\ Len(team.eloHistory) = 1

----------------------------------------------------------------------------
(* C10: when the raw history is empty the normalized history is exactly    *)
(* one point whose value is team.elo; and team.elo is the rounded raw      *)
(* current rating when that is a usable number, otherwise the value of the *)
(* last history point.  A usable number is one the numeric coercion        *)
(* accepts.                                                                *)
Usable(x) == asNumber(x) # Undefined

----------------------------------------------------------------------------
(* Specification of the rankings: the table as the module builds it       *)
(* (every rank 0), then calls of rankTeams in either order, and TeamDetail *)
(* computing the category rank of a team of the table.                     *)

\* a statistic: 115.2, 110.0, or missing
Metrics == {Num(1152), Num(1100), Undefined}
TeamStatsChoices ==
    {[present |-> FALSE, offRating |-> Undefined, offRatingRank |-> 0]}
        \cup [present : {TRUE}, offRating : Metrics, offRatingRank : {0}]
\* category ratings: none, or an integer rating
CategoryChoices ==
    {[present |-> FALSE, offense |-> Undefined]}
        \cup [present : {TRUE}, offense : {Num(800), Num(900)}]
Cohorts ==
    {[i \in 1..Len(ss) |-> [id |-> i, teamStats |-> ss[i].teamStats,
                            categoryRatings |-> ss[i].categoryRatings]] :
        ss \in SeqsUpTo([teamStats : TeamStatsChoices, categoryRatings : CategoryChoices],
                        MaxTeams)}

InitRank ==
    /\ IdleTable /\ IdleLoad /\ IdleApp /\ IdleDelta /\ IdleTeam /\ IdlePlayer /\ IdleChart /\ IdleHelper
    /\ pc = "teams"
    /\ TEAMS \in Cohorts
    /\ rankedBy = "none"
    /\ reranked = FALSE
    /\ selected = 0
    /\ categoryRank = NoRank

RankTeams(ascending) ==
    /\ pc = "teams"
    /\ TEAMS' \in rankTeams(TEAMS, ascending)
    /\ rankedBy' = IF ascending THEN "asc" ELSE "desc"
    /\ reranked' = (rankedBy = IF ascending THEN "asc" ELSE "desc")
    /\ UNCHANGED <<tableVars, loadVars, appVars, pc, deltaVars, teamVars, detailVars, playerVars, chartVars, helperVars>>

RankAscending == RankTeams(TRUE)
RankDescending == RankTeams(FALSE)

\* useMemo(..., [allTeams, team.id]): computed again when another team is shown
ComputeCategoryRanks ==
    /\ pc = "teams"
    /\ \E i \in 1..Len(TEAMS) :
           /\ TEAMS[i].id # selected
           /\ selected' = TEAMS[i].id
           /\ categoryRank' \in categoryRanks(TEAMS, TEAMS[i].id)
    /\ UNCHANGED <<tableVars, loadVars, appVars, pc, deltaVars, teamVars, rankVars, playerVars, chartVars, helperVars>>

SpecRank == InitRank /\ [][RankAscending \/ RankDescending \/ ComputeCategoryRanks]_vars

----------------------------------------------------------------------------
(* C4: ranking gives a rank only to the entities whose metric is a defined *)
(* finite number; an entity whose metric is missing gets no rank entry,    *)
(* is not ranked as if its value were 0, and does not shift the ranks of   *)
(* the others.                                                             *)

HasMetric(t) == t.teamStats.present /\ t.teamStats.offRating.t = "num"
HasRankEntry(t) == t.teamStats.present /\ t.teamStats.offRatingRank >= 1

\* a's metric is strictly better than b's in the order of the last ranking
Better(a, b) ==
    IF rankedBy = "asc" THEN a.teamStats.offRating.v < b.teamStats.offRating.v
    ELSE a.teamStats.offRating.v > b.teamStats.offRating.v

\* the rank of team i among the teams that have the metric
RankAmongDefined(i) ==
    1 + Cardinality({j \in 1..Len(TEAMS) : HasMetric(TEAMS[j]) /\ Better(TEAMS[j], TEAMS[i])})
      + Cardinality({j \in 1..(i - 1) : HasMetric(TEAMS[j])
                        /\ TEAMS[j].teamStats.offRating = TEAMS[i].teamStats.offRating})

C4_NoStatsNoRank ==
    rankedBy # "none" =>
        \A i \in 1..Len(TEAMS) : HasRankEntry(TEAMS[i]) <=> TEAMS[i].teamStats.present

\* categoryRanks gives an entry exactly to a team that has the category rating
C4_CategoryRanks ==
    selected # 0 =>
        (categoryRank.present <=> TEAMS[selected].categoryRatings.offense.t = "num")

----------------------------------------------------------------------------
(* C5: the rank of an entity is its 1-based position in a stable sort by   *)
(* metric in the requested order: 1 + the ranked entities with a strictly  *)
(* better metric + the ranked entities with an equal metric that come      *)
(* before it in the input; the ranks are exactly 1..k.  An entity that is  *)
(* ranked without a metric (C4) is placed by the value it is sorted on, 0. *)

SortedOn(t) == IF t.teamStats.offRating.t = "num" THEN t.teamStats.offRating.v ELSE 0

Ranked == {i \in 1..Len(TEAMS) : HasRankEntry(TEAMS[i])}

StrictlyBetter(j, i) ==
    IF rankedBy = "asc" THEN SortedOn(TEAMS[j]) < SortedOn(TEAMS[i])
    ELSE SortedOn(TEAMS[j]) > SortedOn(TEAMS[i])

CategoryRated == {i \in 1..Len(TEAMS) : TEAMS[i].categoryRatings.offense.t = "num"}

C5_RankIsStablePosition ==
    /\ rankedBy # "none" =>
        /\ \A i \in Ranked :
               TEAMS[i].teamStats.offRatingRank =
                   1 + Cardinality({j \in Ranked : StrictlyBetter(j, i)})
                     + Cardinality({j \in Ranked : j < i /\ SortedOn(TEAMS[j]) = SortedOn(TEAMS[i])})
        /\ {TEAMS[i].teamStats.offRatingRank : i \in Ranked} = 1..Cardinality(Ranked)
    /\ (selected # 0 /\ categoryRank.present) =>
           categoryRank.rank =
               1 + Cardinality({j \in CategoryRated : TEAMS[j].categoryRatings.offense.v
                                    > TEAMS[selected].categoryRatings.offense.v})
                 + Cardinality({j \in CategoryRated : j < selected
                                    /\ TEAMS[j].categoryRatings.offense
                                        = TEAMS[selected].categoryRatings.offense})

\* three ranked teams, the first and the last tied
C5_Witness ==
    /\ rankedBy = "asc" /\ Len(TEAMS) = 3 /\ Ranked = {1, 2, 3}
    /\ HasMetric(TEAMS[1]) /\ HasMetric(TEAMS[2]) /\ HasMetric(TEAMS[3])
    /\ TEAMS[1].teamStats.offRating = TEAMS[3].teamStats.offRating
    /\ TEAMS[2].teamStats.offRating.v < TEAMS[1].teamStats.offRating.v
    /\ TEAMS[2].teamStats.offRatingRank = 1
    /\ TEAMS[1].teamStats.offRatingRank = 2
    /\ TEAMS[3].teamStats.offRatingRank = 3

----------------------------------------------------------------------------
(* C6: ranking is idempotent: a second call on the same metric and order,  *)
(* run on the records the first call left, changes no rank (ties           *)
(* included).                                                              *)
C6_RankIdempotent ==
    [][(rankedBy # "none" /\ rankedBy' = rankedBy /\ reranked') => TEAMS' = TEAMS]_vars

C6_Witness ==
    /\ reranked /\ rankedBy = "desc" /\ Len(TEAMS) >= 2
    /\ HasMetric(TEAMS[1]) /\ HasMetric(TEAMS[2])
    /\ TEAMS[1].teamStats.offRating = TEAMS[2].teamStats.offRating
    /\ TEAMS[1].teamStats.offRatingRank = 1 /\ TEAMS[2].teamStats.offRatingRank = 2

----------------------------------------------------------------------------
(* Specification of the comparison chart and the trend filter: the teams   *)
(* arrive normalized (each history non-empty, ascending, one point a       *)
(* date, every date parseable, names distinct); the chart computes its     *)
(* rows, or TeamDetail filters the history of one team, for a time range   *)
(* chosen by the user on a client in some time zone.                       *)

\* a day outside the month window of day 40, the first day of the week
\* window of day 40, and day 40
ChartDays == {10, 34, 40}
TeamNames == <<"T1", "T2", "T3", "T4">>
TimeRanges == {"week", "month", "season"}
ZoneShifts == {-1, 0, 1}

\* the history with a point of rating level on each day of D
HistoryOn(D, level) ==
    LET dates == SortedDates({Date(d) : d \in D})
    IN  [k \in 1..Len(dates) |-> [date |-> dates[k], elo |-> level]]

ChartHistories ==
    {HistoryOn(D, level) : D \in (SUBSET ChartDays) \ {{}}, level \in {Int10(1500), Int10(1501)}}

ChartTeams ==
    {[i \in 1..Len(ss) |-> [name |-> TeamNames[i], conference |-> ss[i].conference,
                            eloHistory |-> ss[i].eloHistory]] :
        ss \in SeqsUpTo([conference : {"East", "West"}, eloHistory : ChartHistories],
                        MaxChartTeams)}

InitChart ==
    /\ IdleTable /\ IdleLoad /\ IdleApp /\ IdleDelta /\ IdleTeam /\ IdleRank /\ IdlePlayer /\ IdleHelper
    /\ pc = "props"
    /\ teams \in ChartTeams
    /\ timeRange = "season" /\ zoneShift = 0
    /\ chartData = <<>> /\ shown = 0 /\ filtered = <<>>

ComputeChartData ==
    /\ pc = "props"
    /\ \E range \in TimeRanges, shift \in ZoneShifts :
           /\ timeRange' = range
           /\ zoneShift' = shift
           /\ chartData' = chartDataOf(teams, range, shift)
    /\ pc' = "chart"
    /\ UNCHANGED <<tableVars, loadVars, appVars, teams, shown, filtered, deltaVars, teamVars, rankVars, detailVars,
                   playerVars, helperVars>>

FilterEloHistory ==
    /\ pc = "props"
    /\ \E i \in 1..Len(teams), range \in TimeRanges, shift \in ZoneShifts :
           /\ shown' = i
           /\ timeRange' = range
           /\ zoneShift' = shift
           /\ filtered' = filteredEloHistory(teams[i].eloHistory, range, shift)
    /\ pc' = "detail"
    /\ UNCHANGED <<tableVars, loadVars, appVars, teams, chartData, deltaVars, teamVars, rankVars, detailVars,
                   playerVars, helperVars>>

SpecChart == InitChart /\ [][ComputeChartData \/ FilterEloHistory]_vars

\* the teams of a cohort, and those of them with a point on a date
CohortOf(c) ==
    CASE c = "league" -> 1..Len(teams)
      [] c = "east" -> {i \in 1..Len(teams) : teams[i].conference = "East"}
      [] c = "west" -> {i \in 1..Len(teams) : teams[i].conference # "East"}
RatedOn(c, date) ==
    {i \in CohortOf(c) : \E k \in 1..Len(teams[i].eloHistory) :
                             teams[i].eloHistory[k].date = date}
RatingOn(i, date) ==
    teams[i].eloHistory[CHOOSE k \in 1..Len(teams[i].eloHistory) :
                            teams[i].eloHistory[k].date = date].elo
BaselineOf(row, c) ==
    CASE c = "league" -> row.league [] c = "east" -> row.east [] c = "west" -> row.west
Cohorts3 == {"league", "east", "west"}

----------------------------------------------------------------------------
(* C11: in the chart rows, a cohort none of whose teams has a rating on    *)
(* the row's date has no baseline value on that row: null, never 0 or any  *)
(* other number.                                                           *)
C11_NoBaselineWithoutData ==
    pc = "chart" =>
        \A r \in 1..Len(chartData) : \A c \in Cohorts3 :
            RatedOn(c, chartData[r].date) = {} => BaselineOf(chartData[r], c) = Null

\* a row where the West has no rated team and the East has one
C11_Witness ==
    /\ pc = "chart"
    /\ \E r \in 1..Len(chartData) :
           /\ RatedOn("west", chartData[r].date) = {}
           /\ CohortOf("west") # {}
           /\ chartData[r].west = Null
           /\ chartData[r].east.t = "num"

----------------------------------------------------------------------------
(* C12: on every row, the baseline of a cohort with at least one team      *)
(* rated on the row's date is the mean, rounded to the nearest integer, of *)
(* the ratings of exactly the cohort's teams rated on that date; every     *)
(* team is in the league cohort and in exactly one conference cohort.      *)
IsRoundedMean(r, sum, count) ==
    /\ r % 10 = 0
    /\ (r - 5) * count <= sum
    /\ sum < (r + 5) * count

C12_BaselineIsMean ==
    pc = "chart" =>
        /\ \A r \in 1..Len(chartData) : \A c \in Cohorts3 :
               LET rated == RatedOn(c, chartData[r].date)
                   rating == [i \in 1..Len(teams) |->
                                 IF i \in rated THEN RatingOn(i, chartData[r].date) ELSE 0]
               IN  rated # {} =>
                       /\ BaselineOf(chartData[r], c).t = "num"
                       /\ IsRoundedMean(BaselineOf(chartData[r], c).v,
                                        SumOver(rated, rating), Cardinality(rated))
        /\ CohortOf("league") = 1..Len(teams)
        /\ CohortOf("east") \cup CohortOf("west") = 1..Len(teams)
        /\ CohortOf("east") \cap CohortOf("west") = {}

\* two rated teams of one conference with ratings 1500 and 1501, and a third
\* date on which only one of them is rated
C12_Witness ==
    /\ pc = "chart"
    /\ \E r \in 1..Len(chartData) :
           /\ Cardinality(RatedOn("east", chartData[r].date)) = 2
           /\ chartData[r].east = Num(Int10(1501))
           /\ chartData[r].league = Num(Int10(1501))
    /\ \E r \in 1..Len(chartData) :
           /\ Cardinality(RatedOn("league", chartData[r].date)) = 1
           /\ Len(teams) = 2

----------------------------------------------------------------------------
(* C13: the chart and the single-team trend filter anchor the week and     *)
(* month windows on the same date, the maximum date across all teams'      *)
(* histories, also for a team whose own history ends earlier.  Stated for  *)
(* a client whose UTC offset does not change inside the window.            *)
InLeagueWindow(point) ==
    LET latest == LatestTime(FlatHistories(teams))
    IN  /\ PointTime(point) >= latest - 24 * (DaysToFilter(timeRange) - 1)
        /\ PointTime(point) <= latest

C13_SameAnchorEverywhere ==
    (timeRange # "season" /\ zoneShift = 0) =>
        /\ pc = "chart" =>
               {chartData[r].date : r \in 1..Len(chartData)} =
               {p.date : p \in {q \in {FlatHistories(teams)[k] :
                                          k \in 1..Len(FlatHistories(teams))} :
                                   InLeagueWindow(q)}}
        /\ pc = "detail" =>
               {filtered[k] : k \in 1..Len(filtered)} =
               {p \in {teams[shown].eloHistory[k] : k \in 1..Len(teams[shown].eloHistory)} :
                    InLeagueWindow(p)}

\* the chart alone does anchor on the league's latest date
C13_ChartAnchor ==
    (pc = "chart" /\ timeRange # "season" /\ zoneShift = 0) =>
        {chartData[r].date : r \in 1..Len(chartData)} =
        {p.date : p \in {q \in {FlatHistories(teams)[k] :
                                   k \in 1..Len(FlatHistories(teams))} :
                            InLeagueWindow(q)}}

----------------------------------------------------------------------------
(* C14: for a non-empty history the week or month window is exactly the    *)
(* points whose date d satisfies latest - (days - 1) <= d <= latest, with  *)
(* latest the largest date in the data; it contains the latest point and   *)
(* is a subset of the season window, whatever the client's clock or zone.  *)
DayOf(point) == DateTime(point.date).v
PointsOf(h) == {h[k] : k \in 1..Len(h)}
LatestDay(h) == CHOOSE d \in {DayOf(p) : p \in PointsOf(h)} :
                    \A p \in PointsOf(h) : DayOf(p) <= d

WindowIsDataRelative ==
    /\ (pc = "detail" /\ timeRange # "season") =>
           LET h == teams[shown].eloHistory
               latest == LatestDay(h)
           IN  /\ PointsOf(filtered) =
                      {p \in PointsOf(h) : /\ latest - (DaysToFilter(timeRange) - 1) <= DayOf(p)
                                           /\ DayOf(p) <= latest}
               /\ \E p \in PointsOf(filtered) : DayOf(p) = latest
               /\ PointsOf(filtered) \subseteq PointsOf(h)
    /\ (pc = "chart" /\ timeRange # "season" /\ chartData # <<>>) =>
           LET h == FlatHistories(teams)
               latest == LatestDay(h)
           IN  /\ {chartData[r].date : r \in 1..Len(chartData)} =
                      {p.date : p \in
                          {q \in PointsOf(h) :
                               /\ latest - (DaysToFilter(timeRange) - 1) <= DayOf(q)
                               /\ DayOf(q) <= latest}}
               /\ \E r \in 1..Len(chartData) : DateTime(chartData[r].date).v = latest

C14_WindowIsDataRelative == WindowIsDataRelative

\* it is, on a client whose UTC offset is not larger at the latest date
\* than at the cutoff date
C14_NoSpringChange == zoneShift <= 0 => WindowIsDataRelative

----------------------------------------------------------------------------
(* Specification of parseRecord: a raw record string and a seed arrive,    *)
(* parseRecord is applied.  A seed is missing, null or a positive integer. *)

\* "x" stands for any character that is no digit, hyphen or blank
RecordChars == Digits \cup {"-", " ", "x"}
RawRecords ==
    {[present |-> FALSE, chars |-> <<>>]}
        \cup {[present |-> TRUE, chars |-> cs] : cs \in SeqsUpTo(RecordChars, MaxRecordLen)}
Seeds == {Undefined, Null, Num(Int10(3))}

InitParseRecord ==
    /\ IdleTable /\ IdleLoad /\ IdleApp /\ IdleDelta /\ IdleTeam /\ IdleRank /\ IdlePlayer /\ IdleChart
    /\ pc = "record"
    /\ arg \in [raw : RawRecords, seed : Seeds]
    /\ result = NoRecord

ParseRecord ==
    /\ pc = "record"
    /\ result' = parseRecord(arg.raw, arg.seed)
    /\ pc' = "parsed"
    /\ UNCHANGED <<tableVars, loadVars, appVars, arg, deltaVars, teamVars, rankVars, detailVars, playerVars, chartVars>>

SpecParseRecord == InitParseRecord /\ [][ParseRecord]_vars

----------------------------------------------------------------------------
(* C15: parseRecord yields the two integers of a record string that        *)
(* contains two integers separated by a hyphen as wins and losses          *)
(* ("48-20" gives 48 and 20); a missing or non-matching string gives wins  *)
(* 0, losses 0 and the seed when there is a seed, no record otherwise.     *)

\* the hyphens of s with a digit before and a digit after, blanks allowed
\* in between
Separators(s) ==
    {k \in 1..Len(s) :
        /\ s[k] = "-"
        /\ \E i \in 1..(k - 1) : s[i] \in Digits /\ \A b \in (i + 1)..(k - 1) : s[b] = " "
        /\ \E m \in (k + 1)..Len(s) : s[m] \in Digits /\ \A b \in (k + 1)..(m - 1) : s[b] = " "}

\* the integer written by the digits that end at i, and by those that start at m
IntegerEndingAt(s, i) ==
    LET from == CHOOSE a \in 1..i :
                    /\ \A b \in a..i : s[b] \in Digits
                    /\ (a = 1 \/ s[a - 1] \notin Digits)
    IN  DigitsValue(SubSeq(s, from, i))
IntegerStartingAt(s, m) ==
    LET to == CHOOSE a \in m..Len(s) :
                  /\ \A b \in m..a : s[b] \in Digits
                  /\ (a = Len(s) \/ s[a + 1] \notin Digits)
    IN  DigitsValue(SubSeq(s, m, to))

HasSeed == arg.seed.t = "num"

C15_ParseRecord ==
    pc = "parsed" =>
        LET s == arg.raw.chars
            seps == Separators(s)
        IN  IF arg.raw.present /\ seps # {}
            THEN LET k == CHOOSE x \in seps : \A y \in seps : x <= y
                     i == CHOOSE x \in 1..(k - 1) :
                              s[x] \in Digits /\ \A b \in (x + 1)..(k - 1) : s[b] = " "
                     m == CHOOSE x \in (k + 1)..Len(s) :
                              s[x] \in Digits /\ \A b \in (k + 1)..(x - 1) : s[b] = " "
                 IN  /\ result.present
                     /\ result.wins = IntegerEndingAt(s, i)
                     /\ result.losses = IntegerStartingAt(s, m)
            ELSE IF HasSeed
            THEN /\ result.present /\ result.wins = 0 /\ result.losses = 0
                 /\ result.seed = arg.seed
            ELSE ~result.present

\* "48-20" without a seed
C15_Witness ==
    /\ pc = "parsed"
    /\ arg.raw.present /\ arg.raw.chars = <<"4", "8", "-", "2", "0">>
    /\ arg.seed = Undefined
    /\ result.present /\ result.wins = 48 /\ result.losses = 20

\* a string without two such integers, with seed 3
C15_Placeholder ==
    (pc = "parsed" /\ arg.raw.present /\ arg.raw.chars = <<"x">> /\ arg.seed = Num(Int10(3)))
        => (result.present /\ result.wins = 0 /\ result.losses = 0
            /\ result.seed = Num(Int10(3)))

----------------------------------------------------------------------------
(* Specification of asNumber and roundNumber: any value arrives, both are  *)
(* applied to it.                                                          *)

\* finite numbers and numeric strings from -2.5 to 2.5, and the rest
AnyValues ==
    {Undefined, Null, NaN, PosInf, NegInf, Blank, Spaces, Text, Bool, Object}
        \cup {Num(x) : x \in (-MaxTenths)..MaxTenths}
        \cup {Str(x) : x \in (-MaxTenths)..MaxTenths}

InitAsNumber ==
    /\ IdleTable /\ IdleLoad /\ IdleApp /\ IdleDelta /\ IdleTeam /\ IdleRank /\ IdlePlayer /\ IdleChart
    /\ pc = "value"
    /\ arg \in AnyValues
    /\ result = [number |-> Undefined, rounded |-> Undefined]

ApplyAsNumber ==
    /\ pc = "value"
    /\ result' = [number |-> asNumber(arg), rounded |-> roundNumber(arg)]
    /\ pc' = "converted"
    /\ UNCHANGED <<tableVars, loadVars, appVars, arg, deltaVars, teamVars, rankVars, detailVars, playerVars, chartVars>>

SpecAsNumber == InitAsNumber /\ [][ApplyAsNumber]_vars

----------------------------------------------------------------------------
(* C16: asNumber returns a number only for finite numbers and numeric      *)
(* strings, and undefined (never 0, never NaN) for every other input: a    *)
(* missing value, null, NaN, an infinity, an empty or blank string, any    *)
(* other string or type; roundNumber returns undefined in the same cases   *)
(* and an integer otherwise.                                               *)
NumbersOnlyFromNumerics ==
    IF arg.t \in {"num", "str"}
    THEN /\ result.number = Num(arg.v)
         /\ result.rounded.t = "num" /\ result.rounded.v % 10 = 0
         /\ result.rounded.v - 5 <= arg.v /\ arg.v < result.rounded.v + 5
    ELSE result.number = Undefined /\ result.rounded = Undefined

C16_NumbersOnlyFromNumerics == pc = "converted" => NumbersOnlyFromNumerics

\* it does for everything but the empty string and strings of white space
C16_ExceptBlankStrings ==
    (pc = "converted" /\ arg.t \notin {"blank", "spaces"}) => NumbersOnlyFromNumerics

----------------------------------------------------------------------------
(* Specification of the field normalizers mapTeam applies to a raw team:   *)
(* mapTeamStats, normalizeCategories and mapEloHistory.                    *)

RawStatValues == {Undefined, Null, Text, Num(1152), Str(1100)}
RawStats ==
    {[present |-> FALSE, offRating |-> Undefined, offRatingRank |-> Undefined]}
        \cup [present : {TRUE}, offRating : RawStatValues,
              offRatingRank : {Undefined, Num(Int10(3))}]
RawCategories ==
    {[present |-> FALSE, offense |-> Undefined]}
        \cup [present : {TRUE}, offense : {Undefined, Text, Num(805)}]
RawHistories ==
    [present : {TRUE}, current : {Undefined},
     history : {[kind |-> "list", list |-> l] :
                    l \in SeqsUpTo([date : {Date(1), Date(2), Text},
                                    elo : {Num(14996), Undefined}], MaxHistoryPoints)}]

InitNormalize ==
    /\ IdleTable /\ IdleLoad /\ IdleApp /\ IdleDelta /\ IdleTeam /\ IdleRank /\ IdlePlayer /\ IdleChart
    /\ pc = "fields"
    /\ arg \in [teamStats : RawStats, categoryRatings : RawCategories, elo : RawHistories]
    /\ result = [teamStats |-> mapTeamStats([present |-> FALSE]),
                 categoryRatings |-> normalizeCategories([present |-> FALSE]),
                 eloHistory |-> <<>>]

NormalizeFields ==
    /\ pc = "fields"
    /\ \E h \in mapEloHistory(arg.elo) :
           result' = [teamStats |-> mapTeamStats(arg.teamStats),
                      categoryRatings |-> normalizeCategories(arg.categoryRatings),
                      eloHistory |-> h]
    /\ pc' = "normalized"
    /\ UNCHANGED <<tableVars, loadVars, appVars, arg, deltaVars, teamVars, rankVars, detailVars, playerVars, chartVars>>

SpecNormalize == InitNormalize /\ [][NormalizeFields]_vars

----------------------------------------------------------------------------
(* C17: normalizing never fabricates a 0: a statistic, stat rank, category *)
(* rating or history value that is absent or not numeric in the raw record *)
(* is absent from the normalized team, never 0.                            *)
Numeric(x) == x.t \in {"num", "str"}
RawPointsOf == {arg.elo.history.list[i] : i \in 1..Len(arg.elo.history.list)}

NoFabricatedZero ==
    /\ (arg.teamStats.present /\ ~Numeric(arg.teamStats.offRating))
           => result.teamStats.offRating = Undefined
    /\ (arg.teamStats.present /\ ~Numeric(arg.teamStats.offRatingRank))
           => result.teamStats.offRatingRank = Undefined
    /\ (arg.categoryRatings.present /\ ~Numeric(arg.categoryRatings.offense))
           => result.categoryRatings.offense = Undefined
    /\ \A k \in 1..Len(result.eloHistory) :
           \E p \in RawPointsOf :
               /\ p.date = result.eloHistory[k].date
               /\ Numeric(p.elo)
               /\ result.eloHistory[k].elo = MathRound(p.elo.v)

C17_NoFabricatedZero == pc = "normalized" => NoFabricatedZero

\* values that are numeric in the raw record are kept
C17_NumericKept ==
    pc = "normalized" =>
        /\ (arg.teamStats.present /\ Numeric(arg.teamStats.offRating))
               => result.teamStats.offRating = Num(arg.teamStats.offRating.v)
        /\ (arg.categoryRatings.present /\ Numeric(arg.categoryRatings.offense))
               => result.categoryRatings.offense = Num(MathRound(arg.categoryRatings.offense.v))

----------------------------------------------------------------------------
(* C20: after normalization a rating history is sorted ascending by date:  *)
(* no point is dated earlier than a point before it, whatever the order of *)
(* the raw points.                                                         *)
Parseable(date) == date.t = "date"

SortedAscending(h) ==
    \A i \in 1..Len(h), j \in 1..Len(h) :
        (i < j /\ Parseable(h[i].date) /\ Parseable(h[j].date)) => h[i].date.v <= h[j].date.v

C20_HistorySorted == pc = "normalized" => SortedAscending(result.eloHistory)

\* it is when every raw date can be parsed
C20_SortedWhenParseable ==
    (pc = "normalized" /\ \A p \in RawPointsOf : Parseable(p.date))
        => SortedAscending(result.eloHistory)

----------------------------------------------------------------------------
(* C21: after normalization a rating history has at most one point per     *)
(* date, also when the raw history lists a date more than once.            *)
OnePointPerDate(h) ==
    \A i \in 1..Len(h), j \in 1..Len(h) : h[i].date = h[j].date => i = j

C21_OnePointPerDate == pc = "normalized" => OnePointPerDate(result.eloHistory)

\* it has when the raw history lists no date twice
C21_DistinctRawDates ==
    (pc = "normalized" /\ OnePointPerDate(arg.elo.history.list))
        => OnePointPerDate(result.eloHistory)

----------------------------------------------------------------------------
(* Specification of normalizeConference: a raw conference string arrives   *)
(* (or none), normalizeConference is applied.                              *)

ConferenceChars == {"w", "W", "e", "E", "s", "t", "a"}
RawStrings(chars, len) ==
    {[present |-> FALSE, chars |-> <<>>]}
        \cup {[present |-> TRUE, chars |-> cs] : cs \in SeqsUpTo(chars, len)}

InitConference ==
    /\ IdleTable /\ IdleLoad /\ IdleApp /\ IdleDelta /\ IdleTeam /\ IdleRank /\ IdlePlayer /\ IdleChart
    /\ pc = "conference"
    /\ arg \in RawStrings(ConferenceChars, MaxConferenceLen)
    /\ result = ""

NormalizeConference ==
    /\ pc = "conference"
    /\ result' = normalizeConference(arg)
    /\ pc' = "normalized"
    /\ UNCHANGED <<tableVars, loadVars, appVars, arg, deltaVars, teamVars, rankVars, detailVars, playerVars, chartVars>>

SpecConference == InitConference /\ [][NormalizeConference]_vars

----------------------------------------------------------------------------
(* C18: normalizeConference returns West exactly when the raw string       *)
(* contains "west" in any mix of upper and lower case, and East for every  *)
(* other input, a missing or empty string included.                        *)
ContainsWest(cs) ==
    \E i \in 1..(Len(cs) - 3) :
        /\ cs[i] \in {"w", "W"}
        /\ cs[i + 1] \in {"e", "E"}
        /\ cs[i + 2] \in {"s", "S"}
        /\ cs[i + 3] \in {"t", "T"}

C18_WestOrEast ==
    pc = "normalized" =>
        /\ result \in {"East", "West"}
        /\ result = "West" <=> (arg.present /\ ContainsWest(arg.chars))

\* "aWEst" is West
C18_Witness ==
    /\ pc = "normalized"
    /\ arg.present /\ arg.chars = <<"a", "W", "E", "s", "t">>
    /\ result = "West"

----------------------------------------------------------------------------
(* Specification of pickColor: an abbreviation (or none) and the team's    *)
(* position in the dataset arrive, pickColor is applied, and applied again *)
(* on a refresh.                                                           *)

AbbreviationChars == {"b", "B", "o", "O", "s", "S", "n"}

InitColor ==
    /\ IdleTable /\ IdleLoad /\ IdleApp /\ IdleDelta /\ IdleTeam /\ IdleRank /\ IdlePlayer /\ IdleChart
    /\ pc = "abbreviation"
    /\ arg \in [abbreviation : RawStrings(AbbreviationChars, MaxAbbreviationLen),
                index : 0..MaxIndex]
    /\ result = ""

PickColor ==
    /\ pc \in {"abbreviation", "colored"}
    /\ result' = pickColor(arg.abbreviation, arg.index)
    /\ pc' = IF pc = "abbreviation" THEN "colored" ELSE "refreshed"
    /\ UNCHANGED <<tableVars, loadVars, appVars, arg, deltaVars, teamVars, rankVars, detailVars, playerVars, chartVars>>

SpecColor == InitColor /\ [][PickColor]_vars

----------------------------------------------------------------------------
(* C19: every team gets a non-empty color, chosen deterministically: the   *)
(* table's color when the upper-cased abbreviation is in the table,        *)
(* otherwise the palette entry at position index mod palette size; a       *)
(* refresh with the same abbreviation and index gives the same color.      *)
SameIgnoringCase(cs, key) ==
    /\ Len(cs) = Len(key)
    /\ \A i \in 1..Len(cs) :
           cs[i] = key[i] \/ <<cs[i], key[i]>> \in LetterPairs

ExpectedColors ==
    LET cs == IF arg.abbreviation.present THEN arg.abbreviation.chars ELSE <<>>
        keys == {key \in DOMAIN TEAM_COLORS : SameIgnoringCase(cs, key)}
    IN  IF keys # {} THEN {TEAM_COLORS[key] : key \in keys}
        ELSE {FALLBACK_COLORS[p] : p \in {q \in 1..12 : (q - 1) % 12 = arg.index % 12}}

C19_ColorDeterministic ==
    /\ pc \in {"colored", "refreshed"} => (result # "" /\ ExpectedColors = {result})
    /\ Len(FALLBACK_COLORS) = 12

C19_Refresh == [][pc = "colored" => result' = result]_vars

\* "bos" gets the table's color of BOS on first load and on refresh
C19_Witness ==
    /\ pc = "refreshed"
    /\ arg.abbreviation.chars = <<"b", "o", "s">>
    /\ result = "#007A33"

----------------------------------------------------------------------------
(* Specification of the composite rating engine: a player arrives,         *)
(* getPlayerCategoryRatings rates it.                                      *)

\* a raw rating signal: missing, null, NaN, infinite, a string, 0.4, 60.4,
\* 99.5, 125, -3
Signals == {Undefined, Null, NaN, PosInf, NegInf, Str(850), Num(4), Num(604), Num(995),
            Num(1250), Num(-30)}

\* one category and one skill take any signal; the other categories are all
\* missing or all 55.5, the other skills are 70.2
Players ==
    {NoPlayer} \cup
    { [perCategory |->
           [present |-> TRUE,
            value |-> [k \in CategoryKeys |-> IF k = k1 THEN a ELSE others]],
       skills |->
           [present |-> hasSkills,
            value |-> [k \in SkillKeys |->
                          IF ~hasSkills THEN Undefined ELSE IF k = s1 THEN b ELSE Num(702)]],
       rating |-> c] :
        k1 \in CategoryKeys, a \in Signals, others \in {Undefined, Num(555)},
        hasSkills \in BOOLEAN, s1 \in SkillKeys, b \in Signals,
        c \in {Undefined, NaN, Num(884), Num(1250)} }

InitPlayer ==
    /\ IdleTable /\ IdleLoad /\ IdleApp /\ IdleDelta /\ IdleTeam /\ IdleRank /\ IdleChart /\ IdleHelper
    /\ pc = "player"
    /\ player \in Players
    /\ ratings = NoRatings

RatePlayer ==
    /\ pc = "player"
    /\ ratings' = getPlayerCategoryRatings(player)
    /\ pc' = "rated"
    /\ UNCHANGED <<tableVars, loadVars, appVars, player, deltaVars, teamVars, rankVars, detailVars, chartVars, helperVars>>

SpecPlayer == InitPlayer /\ [][RatePlayer]_vars

----------------------------------------------------------------------------
(* C7: every category rating is an integer in [1,99] whatever the inputs   *)
(* are; for a player with no per-category score, no skills and no usable   *)
(* overall rating every category is 60.                                    *)
C7_RatingInRange ==
    pc = "rated" =>
        /\ \A k \in CategoryKeys :
               ratings[k] % 10 = 0 /\ ratings[k] >= Int10(1) /\ ratings[k] <= Int10(99)
        /\ ( /\ \A k \in CategoryKeys :
                    ~player.perCategory.present \/ player.perCategory.value[k].t # "num"
             /\ ~player.skills.present
             /\ player.rating.t # "num" )
           => \A k \in CategoryKeys : ratings[k] = Int10(60)

\* a score above the range, next to a player with nothing usable
C7_Witness ==
    /\ pc = "rated"
    /\ player.perCategory.present /\ player.perCategory.value["sco"] = Num(1250)
    /\ ratings["sco"] = Int10(99)
    /\ ~player.skills.present /\ player.rating = NaN /\ ratings["imp"] = Int10(60)

----------------------------------------------------------------------------
(* C8: for each category the result is the per-category score, rounded and *)
(* clamped to [1,99], when it is a finite number; otherwise the category's *)
(* own fallback signal (shooting for sco, playmaking for ply, rebounding   *)
(* for reb, defense for def, athleticism for hst, the overall rating for   *)
(* imp), rounded and clamped, when that is finite; otherwise 60.           *)

RoundClamp(x) ==
    LET r == MathRound(x)
    IN  IF r < Int10(1) THEN Int10(1) ELSE IF r > Int10(99) THEN Int10(99) ELSE r

FallbackSignal(p, k) ==
    IF k = "imp" THEN p.rating
    ELSE IF ~p.skills.present THEN Undefined
    ELSE CASE k = "sco" -> p.skills.value["shooting"]
           [] k = "ply" -> p.skills.value["playmaking"]
           [] k = "reb" -> p.skills.value["rebounding"]
           [] k = "def" -> p.skills.value["defense"]
           [] k = "hst" -> p.skills.value["athleticism"]

C8_FallbackOrder ==
    pc = "rated" =>
        \A k \in CategoryKeys :
            LET score == IF player.perCategory.present THEN player.perCategory.value[k]
                         ELSE Undefined
                fb == FallbackSignal(player, k)
            IN  ratings[k] = IF score.t = "num" THEN RoundClamp(score.v)
                             ELSE IF fb.t = "num" THEN RoundClamp(fb.v)
                             ELSE Int10(60)

\* a null score falls back to a fractional skill, a finite score wins over it
C8_Witness ==
    /\ pc = "rated" /\ player.perCategory.present /\ player.skills.present
    /\ player.perCategory.value["reb"] = Null
    /\ player.skills.value["rebounding"] = Num(995)
    /\ ratings["reb"] = Int10(99)
    /\ player.perCategory.value["def"] = Num(555)
    /\ ratings["def"] = Int10(56)

----------------------------------------------------------------------------
(* C23: no engine operation changes the records it is given: ranking a     *)
(* cohort leaves the input list in its order and every field of every      *)
(* input record unchanged, its results are only in newly created records.  *)
C23_InputsUnchanged == [][TEAMS' = TEAMS]_vars

\* ranking keeps the order of the table and every field but the rank
SameButRank(a, b) == [a EXCEPT !.teamStats.offRatingRank = 0] = [b EXCEPT !.teamStats.offRatingRank = 0]
C23_OnlyRankWritten ==
    [][/\ Len(TEAMS') = Len(TEAMS)
       /\ \A i \in 1..Len(TEAMS) : SameButRank(TEAMS'[i], TEAMS[i])]_vars

----------------------------------------------------------------------------
(* Specification of mapGameHistory: a raw game list arrives (or none, or   *)
(* something that is no array), mapGameHistory normalizes it.              *)
MaxOutcomeGames == 2

\* the raw result is 'W', 'L' or missing
RawResults == {"W", "L", "undefined"}
RawOutcomeRecords ==
    [date : {Date(1), Date(2)}, eloChange : {Num(25)},
     teamScore : {Num(1100), Undefined}, opponentScore : {Num(1040), Num(1120)},
     result : RawResults]

InitGameOutcome ==
    /\ IdleTable /\ IdleLoad /\ IdleApp /\ IdleTeam /\ IdleRank /\ IdlePlayer /\ IdleChart
    /\ pc = "raw games"
    /\ arg \in RawArrays(RawOutcomeRecords, MaxOutcomeGames)
    /\ result = Undefined
    /\ history = <<>> /\ games = <<>> /\ n = 0 /\ delta = 0

MapGameHistory ==
    /\ pc = "raw games"
    /\ games' \in mapGameHistory(arg)
    /\ pc' = "games"
    /\ UNCHANGED <<tableVars, loadVars, appVars, history, n, delta, teamVars, rankVars, detailVars, playerVars, chartVars, helperVars>>

SpecGameOutcome == InitGameOutcome /\ [][MapGameHistory]_vars

\* both scores of raw game r are present
BothScores(r) == r.teamScore.t = "num" /\ r.opponentScore.t = "num"
\* normalized game g is made from raw game r: a missing score is shown as 0
MadeFrom(g, r) ==
    /\ g.date = r.date
    /\ g.score.team = (IF r.teamScore.t = "num" THEN r.teamScore ELSE Num(0))
    /\ g.score.opponent = (IF r.opponentScore.t = "num" THEN r.opponentScore ELSE Num(0))

(* C22: every normalized game has the outcome Win exactly when its own     *)
(* score is greater than the opponent's, whenever both scores are present  *)
(* in the raw game.                                                        *)
C22_WinIffHigherScore ==
    pc = "games" =>
        \A k \in 1..Len(games), i \in 1..Len(arg.list) :
            (BothScores(arg.list[i]) /\ MadeFrom(games[k], arg.list[i])) =>
                (games[k].result = "W" <=> games[k].score.team.v > games[k].score.opponent.v)

\* the outcome is Win exactly when the raw game's result is 'W'
C22_WinIffRawResult ==
    pc = "games" =>
        /\ Len(games) = Len(arg.list)
        /\ \A k \in 1..Len(games) :
               \E i \in 1..Len(arg.list) :
                   /\ MadeFrom(games[k], arg.list[i])
                   /\ (games[k].result = "W" <=> arg.list[i].result = "W")

----------------------------------------------------------------------------
(* Specification of the game-log delta of a raw game list: mapGameHistory  *)
(* normalizes the list and computeEloChangeLastN sums the n most recent    *)
(* changes of the normalized log.                                          *)
MaxOrderGames == 3

RawOrderRecords ==
    [date : {Date(1), Date(2), Undefined, Text}, eloChange : {Num(30), Num(-20)},
     teamScore : {Num(1100)}, opponentScore : {Num(1040)}, result : {"W"}]
RawOrderLists == SeqsUpTo(RawOrderRecords, MaxOrderGames) \ {<<>>}

InitGameOrder ==
    /\ IdleTable /\ IdleLoad /\ IdleApp /\ IdleTeam /\ IdleRank /\ IdlePlayer /\ IdleChart
    /\ pc = "raw log"
    /\ arg \in {[kind |-> "list", list |-> l] : l \in RawOrderLists}
    /\ result = Undefined
    /\ history = <<>> /\ games = <<>> /\ delta = 0
    /\ n \in 0..MaxOrderGames

GameLogDelta ==
    /\ pc = "raw log"
    /\ games' \in mapGameHistory(arg)
    /\ delta' \in computeEloChangeLastN(history, games', n)
    /\ pc' = "log delta"
    /\ UNCHANGED <<tableVars, loadVars, appVars, history, n, teamVars, rankVars, detailVars, playerVars, chartVars, helperVars>>

SpecGameOrder == InitGameOrder /\ [][GameLogDelta]_vars

\* the deltas the raw list l can give for the n most recent games
DeltasOf(l) ==
    UNION {computeEloChangeLastN(<<>>, g, n) :
               g \in mapGameHistory([kind |-> "list", list |-> l])}
RawOrders(l) == {Reorder(l, order) : order \in IndexPermutations(Len(l))}

(* C28: the game-log trailing delta does not depend on the order of the    *)
(* raw game list: every permutation of the list gives the same delta, also *)
(* when games share a date or have a missing or unparseable date.          *)
C28_OrderIndependent ==
    pc = "log delta" => \A l \in RawOrders(arg.list) : DeltasOf(l) = {delta}

\* it is, when the dates are parseable and no two games share one
C28_DistinctParseableDates ==
    (pc = "log delta"
        /\ (\A i \in 1..Len(arg.list) : arg.list[i].date.t = "date")
        /\ (\A i, j \in 1..Len(arg.list) : arg.list[i].date = arg.list[j].date => i = j))
    => \A l \in RawOrders(arg.list) : DeltasOf(l) = {delta}

\* it is, whatever the dates, when n covers the whole list
C28_WholeLog ==
    (pc = "log delta" /\ n >= Len(arg.list))
        => \A l \in RawOrders(arg.list) : DeltasOf(l) = {delta}

----------------------------------------------------------------------------
(* JSON loaders: loadTeamsFromJson and fetchPlayerData request their URLs  *)
(* one after the other.                                                    *)

TEAM_DATA_URLS == <<"/data/teams.json", "/data/teams.sample.json">>
tryUrls == <<"/data/players.json", "/data/players.sample.json">>

(* What a URL can answer: the request fails ("network error"), the status  *)
(* is not OK ("not ok"), the body is no JSON ("bad json"), the payload has *)
(* no list ("no list") or an empty one ("empty list"), it has a non-empty  *)
(* list with a record mapTeam throws on, such as null ("bad records"), or  *)
(* a non-empty list of records ("records").                                *)
TeamResponses ==
    {"network error", "not ok", "bad json", "no list", "empty list", "bad records", "records"}
PlayerResponses ==
    {"network error", "not ok", "bad json", "no list", "empty list", "records"}

\* the same, without the check of the list's length
loadTeamsUrlAcceptEmpty(response) ==
    CASE response \in {"network error", "bad json"} -> [next |-> "continue", mapTeam |-> FALSE]
      [] response = "not ok" -> [next |-> "continue", mapTeam |-> FALSE]
      [] response = "no list" -> [next |-> "continue", mapTeam |-> FALSE]
      [] response = "bad records" -> [next |-> "continue", mapTeam |-> TRUE]
      [] OTHER -> [next |-> "return", mapTeam |-> response = "records"]

\* one turn of loadTeamsFromJson's loop: whether it returns the URL's teams
\* or goes on to the next URL, and whether mapTeam was called
loadTeamsUrl(response) ==
    CASE response \in {"network error", "bad json"} -> [next |-> "continue", mapTeam |-> FALSE]
      [] response = "not ok" -> [next |-> "continue", mapTeam |-> FALSE]
      [] response \in {"no list", "empty list"} -> [next |-> "continue", mapTeam |-> FALSE]
      [] response = "bad records" -> [next |-> "continue", mapTeam |-> TRUE]
      [] OTHER -> [next |-> "return", mapTeam |-> TRUE]

\* one turn of fetchPlayerData's loop: whether it returns the URL's payload
\* or goes on, and whether the turn set lastError
fetchPlayerUrl(response) ==
    CASE response \in {"network error", "not ok", "bad json"} -> [next |-> "continue", failed |-> TRUE]
      [] response \in {"no list", "empty list"} -> [next |-> "continue", failed |-> FALSE]
      [] OTHER -> [next |-> "return", failed |-> FALSE]

\* after the last URL loadTeamsFromJson returns [] (data 0: no URL's data)
loadTeamsFromJsonEnd == [kind |-> "returned", data |-> 0]

\* returns an empty payload instead
fetchPlayerDataEndQuiet(e) == [kind |-> "returned", data |-> 0]
\* after the last URL fetchPlayerData throws lastError ?? new Error(...)
fetchPlayerDataEnd(e) == [kind |-> "thrown", data |-> e]

InitLoader ==
    /\ IdleTable /\ IdleApp /\ IdleDelta /\ IdleTeam /\ IdleRank /\ IdlePlayer /\ IdleChart /\ IdleHelper
    /\ pc = "loader"
    /\ \/ loader = "loadTeamsFromJson" /\ responses \in [1..Len(TEAM_DATA_URLS) -> TeamResponses]
       \/ loader = "fetchPlayerData" /\ responses \in [1..Len(tryUrls) -> PlayerResponses]
    /\ requested = <<>>
    /\ mappedUrls = {}
    /\ lastError = 0
    /\ outcome = Pending

RequestTeamUrl ==
    /\ pc = "loader" /\ loader = "loadTeamsFromJson" /\ outcome = Pending
    /\ Len(requested) < Len(TEAM_DATA_URLS)
    /\ LET k == Len(requested) + 1
           turn == loadTeamsUrl(responses[k])
       IN  /\ requested' = Append(requested, TEAM_DATA_URLS[k])
           /\ mappedUrls' = IF turn.mapTeam THEN mappedUrls \cup {k} ELSE mappedUrls
           /\ outcome' = IF turn.next = "return" THEN [kind |-> "returned", data |-> k]
                         ELSE IF k = Len(TEAM_DATA_URLS) THEN loadTeamsFromJsonEnd
                         ELSE Pending
    /\ UNCHANGED <<tableVars, pc, loader, responses, lastError, appVars, deltaVars, teamVars, rankVars,
                   detailVars, playerVars, chartVars, helperVars>>

RequestPlayerUrl ==
    /\ pc = "loader" /\ loader = "fetchPlayerData" /\ outcome = Pending
    /\ Len(requested) < Len(tryUrls)
    /\ LET k == Len(requested) + 1
           turn == fetchPlayerUrl(responses[k])
           err == IF turn.failed THEN k ELSE lastError
       IN  /\ requested' = Append(requested, tryUrls[k])
           /\ lastError' = err
           /\ outcome' = IF turn.next = "return" THEN [kind |-> "returned", data |-> k]
                         ELSE IF k = Len(tryUrls) THEN fetchPlayerDataEnd(err)
                         ELSE Pending
    /\ UNCHANGED <<tableVars, pc, loader, responses, mappedUrls, appVars, deltaVars, teamVars, rankVars,
                   detailVars, playerVars, chartVars, helperVars>>

NextLoader == RequestTeamUrl \/ RequestPlayerUrl
SpecLoader == InitLoader /\ [][NextLoader]_vars
\* each await settles: a loader that can take a turn eventually takes it
SpecLoaderFair == SpecLoader /\ WF_vars(RequestTeamUrl) /\ WF_vars(RequestPlayerUrl)

----------------------------------------------------------------------------
(* C25: both JSON loaders try their URLs in a fixed order, primary file    *)
(* first and sample file second, and return the data of the first URL that *)
(* answers OK with a non-empty list: after such a success no later URL is  *)
(* requested, and a failure of an earlier URL never prevents the next URL  *)
(* from being tried.                                                       *)

UrlsOf(l) == IF l = "loadTeamsFromJson" THEN TEAM_DATA_URLS ELSE tryUrls
InListOrder == requested = SubSeq(UrlsOf(loader), 1, Len(requested))
\* the loader ended with the data of the first of its URLs in S, having
\* requested no URL after it, or tried every URL when none is in S
EndsAtFirstOf(S) ==
    IF S = {} THEN /\ Len(requested) = Len(UrlsOf(loader))
                   /\ outcome.kind = "thrown" \/ outcome = [kind |-> "returned", data |-> 0]
    ELSE LET first == CHOOSE k \in S : \A j \in S : k <= j
         IN  outcome = [kind |-> "returned", data |-> first] /\ Len(requested) = first

\* the URLs that answer OK with a non-empty list
NonEmptyList == {k \in 1..Len(responses) : responses[k] \in {"records", "bad records"}}
\* those of them whose records are all normalized without an exception
Normalizable == {k \in 1..Len(responses) : responses[k] = "records"}

C25_FirstNonEmptyList ==
    pc = "loader" => /\ InListOrder
                     /\ outcome # Pending => EndsAtFirstOf(NonEmptyList)

\* as amended: a list with a record that mapTeam throws on is a failure of
\* its URL as well
C25_FirstNormalizableList ==
    pc = "loader" => /\ InListOrder
                     /\ outcome # Pending => EndsAtFirstOf(Normalizable)
                     /\ outcome = Pending => Len(requested) < Len(UrlsOf(loader))

\* the sample file's data is returned after the primary file failed
C25_Witness ==
    /\ pc = "loader" /\ outcome = [kind |-> "returned", data |-> 2]
    /\ responses[1] # "records" /\ Len(requested) = 2

\* once a URL has failed the next one is requested, and the loader ends
C25_NextUrlTried ==
    /\ (pc = "loader" /\ Len(requested) = 1 /\ outcome = Pending) ~> (Len(requested) = 2)
    /\ (pc = "loader") ~> (outcome # Pending)

----------------------------------------------------------------------------
(* App: loadInitialData, the default-selection effect, renderContent and   *)
(* the handlers of the views it renders.                                   *)
MaxLoads == 3
MaxAppTeams == 2

NoError == [present |-> FALSE, message |-> ""]
FailedToLoad ==
    [present |-> TRUE, message |-> "Failed to load team data. The AI might be taking a break."]
UnexpectedError ==
    [present |-> TRUE, message |-> "An unexpected error occurred while fetching data."]
\* selectedTeam === null
NullTeam == [snapshot |-> 0, id |-> 0, elo |-> Null]

AppElos == {Num(15000), Num(16000)}
\* the team lists the k-th fetchTeamData call can resolve with: the objects
\* of a call are new ones, told from those of other calls by snapshot
FetchedTeams(k) ==
    {[i \in 1..Len(elos) |-> [snapshot |-> k, id |-> i, elo |-> elos[i]]] :
         elos \in SeqsUpTo(AppElos, MaxAppTeams)}
TeamFetches(k) ==
    {[kind |-> "rejected", list |-> <<>>], [kind |-> "null", list |-> <<>>]}
        \cup {[kind |-> "list", list |-> l] : l \in FetchedTeams(k)}
SummaryFetches == {[kind |-> "rejected"], [kind |-> "null"], [kind |-> "summary"]}
AwaitingFetch == [teams |-> [kind |-> "pending", list |-> <<>>], summary |-> [kind |-> "pending"]]

\* loadInitialData up to its await
loadInitialDataBegin(a) ==
    [a EXCEPT !.isLoading = TRUE, !.error = NoError, !.selectedTeam = NullTeam]

\* the same, with setIsLoading(false) at the end of the try block
loadInitialDataEndNoFinally(a, fetchedTeams, fetchedSummary, k) ==
    IF fetchedTeams.kind = "rejected" \/ fetchedSummary.kind = "rejected"
    THEN {[a EXCEPT !.error = UnexpectedError]}
    ELSE LET keys == [i \in 1..Len(fetchedTeams.list) |-> fetchedTeams.list[i].elo]
             withTeams ==
                 IF fetchedTeams.kind = "list" /\ Len(fetchedTeams.list) > 0
                 THEN {[a EXCEPT !.teams = Reorder(fetchedTeams.list, order)] :
                           order \in SortOrders(keys, TRUE)}
                 ELSE {[a EXCEPT !.error = FailedToLoad]}
         IN  {[x EXCEPT !.dailySummary = IF fetchedSummary.kind = "summary" THEN k ELSE @,
                        !.isLoading = FALSE] : x \in withTeams}

\* loadInitialData after Promise.all has settled, in the k-th call: the
\* states it can leave
loadInitialDataEnd(a, fetchedTeams, fetchedSummary, k) ==
    IF fetchedTeams.kind = "rejected" \/ fetchedSummary.kind = "rejected"
    THEN {[a EXCEPT !.error = UnexpectedError, !.isLoading = FALSE]}
    ELSE LET keys == [i \in 1..Len(fetchedTeams.list) |-> fetchedTeams.list[i].elo]
             withTeams ==
                 IF fetchedTeams.kind = "list" /\ Len(fetchedTeams.list) > 0
                 THEN {[a EXCEPT !.teams = Reorder(fetchedTeams.list, order)] :
                           order \in SortOrders(keys, TRUE)}
                 ELSE {[a EXCEPT !.error = FailedToLoad]}
         IN  {[x EXCEPT !.dailySummary = IF fetchedSummary.kind = "summary" THEN k ELSE @,
                        !.isLoading = FALSE] : x \in withTeams}

\* selects the last team of the list
defaultSelectionLast(a) ==
    IF a.selectedTeam = NullTeam /\ Len(a.teams) > 0
    THEN [a EXCEPT !.selectedTeam = a.teams[Len(a.teams)]]
    ELSE a

\* the default-selection effect
defaultSelection(a) ==
    IF a.selectedTeam = NullTeam /\ Len(a.teams) > 0
    THEN [a EXCEPT !.selectedTeam = a.teams[1]]
    ELSE a

\* what renderContent shows
renderContent(a) ==
    IF a.isLoading THEN "spinner"
    ELSE IF a.error.present THEN "error"
    ELSE "tabs"

InitApp ==
    /\ IdleTable /\ IdleLoad /\ IdleDelta /\ IdleTeam /\ IdleRank /\ IdlePlayer /\ IdleChart /\ IdleHelper
    /\ pc = "mounting"
    /\ app = [teams |-> <<>>, dailySummary |-> 0, selectedTeam |-> NullTeam,
              isLoading |-> TRUE, error |-> NoError]
    /\ fetched = NoFetch
    /\ loads = 0
    /\ effectDue = TRUE

LoadInitialData ==
    /\ loads < MaxLoads
    /\ app' = loadInitialDataBegin(app)
    /\ fetched' = AwaitingFetch
    /\ loads' = loads + 1
    /\ effectDue' = (effectDue \/ app'.selectedTeam # app.selectedTeam)
    /\ pc' = "awaiting"
    /\ UNCHANGED <<tableVars, loadVars, deltaVars, teamVars, rankVars, detailVars, playerVars, chartVars, helperVars>>

\* useEffect(() => { loadInitialData(); }, [loadInitialData]), on mount
Mount == pc = "mounting" /\ LoadInitialData

\* the button of the error view
TryAgain == pc = "settled" /\ renderContent(app) = "error" /\ LoadInitialData

\* Promise.all settles and loadInitialData runs to its end
LoadSettles ==
    /\ pc = "awaiting"
    /\ \E t \in TeamFetches(loads), sm \in SummaryFetches :
           /\ app' \in loadInitialDataEnd(app, t, sm, loads)
           /\ fetched' = [teams |-> t, summary |-> sm]
    /\ effectDue' = (effectDue \/ app'.teams # app.teams)
    /\ pc' = "settled"
    /\ UNCHANGED <<tableVars, loads, loadVars, deltaVars, teamVars, rankVars, detailVars, playerVars, chartVars, helperVars>>

\* the effect on [teams, selectedTeam] runs after a render that changed them
DefaultSelectionEffect ==
    /\ pc \in {"mounting", "awaiting", "settled"}
    /\ effectDue
    /\ app' = defaultSelection(app)
    /\ effectDue' = (app'.selectedTeam # app.selectedTeam)
    /\ UNCHANGED <<tableVars, pc, fetched, loads, loadVars, deltaVars, teamVars, rankVars, detailVars, playerVars, chartVars, helperVars>>

\* a click on a row of TeamList: onSelectTeam(team)
SelectTeam ==
    /\ pc = "settled" /\ renderContent(app) = "tabs" /\ ~effectDue
    /\ \E i \in 1..Len(app.teams) :
           /\ app.teams[i] # app.selectedTeam
           /\ app' = [app EXCEPT !.selectedTeam = app.teams[i]]
    /\ effectDue' = TRUE
    /\ UNCHANGED <<tableVars, pc, fetched, loads, loadVars, deltaVars, teamVars, rankVars, detailVars, playerVars, chartVars, helperVars>>

NextApp == Mount \/ TryAgain \/ LoadSettles \/ DefaultSelectionEffect \/ SelectTeam
SpecApp == InitApp /\ [][NextApp]_vars

\* the loaders and the application, each on its own
SpecSource == (InitLoader \/ InitApp) /\ [][NextLoader \/ NextApp]_vars

----------------------------------------------------------------------------
(* C26: isLoading is true from the start of loadInitialData until it       *)
(* finishes and false after it finishes, in every outcome (teams returned, *)
(* empty list returned, either fetch throwing); once a load has finished,  *)
(* error is null exactly when that load returned a non-empty team list.    *)

\* the outcome "teams returned": neither fetch threw and the list is not empty
TeamsReturned(f) ==
    f.teams.kind = "list" /\ Len(f.teams.list) > 0 /\ f.summary.kind # "rejected"

C26_LoadState ==
    /\ pc \in {"mounting", "awaiting"} => app.isLoading
    /\ pc = "settled" => /\ ~app.isLoading
                         /\ app.error = NoError <=> TeamsReturned(fetched)

\* a retry ended with the team list returned and the summary fetch throwing
C26_Witness ==
    /\ pc = "settled" /\ loads > 1 /\ ~app.isLoading /\ app.error = UnexpectedError
    /\ fetched.teams.kind = "list" /\ Len(fetched.teams.list) > 0
    /\ fetched.summary.kind = "rejected"

----------------------------------------------------------------------------
(* C27: whenever loading has finished without error and the default-       *)
(* selection effect has run, the selected team is one of the teams of the  *)
(* snapshot on display, the top-rated one unless the user picked another,  *)
(* also after failed loads and retries; it is never a team of an earlier   *)
(* snapshot.                                                               *)

TopRated(t, ts) == \A j \in 1..Len(ts) : ts[j].elo.v <= t.elo.v
SelectionSettled == pc = "settled" /\ renderContent(app) = "tabs" /\ ~effectDue

SelectedInSnapshot ==
    SelectionSettled =>
        /\ \E i \in 1..Len(app.teams) : app.teams[i] = app.selectedTeam
        /\ app.selectedTeam.snapshot = loads
        /\ \A i \in 1..Len(app.teams) : app.teams[i].snapshot = loads

\* a selection that no click made is the top-rated team of the snapshot
DefaultIsTopRated ==
    (app.selectedTeam = NullTeam /\ app'.selectedTeam # NullTeam)
        => TopRated(app'.selectedTeam, app'.teams)

C27_SelectedInSnapshot == []SelectedInSnapshot /\ [][DefaultIsTopRated]_vars

\* after a failed load and a retry the user has picked a team that is not
\* the top-rated one
C27_Witness ==
    /\ SelectionSettled /\ loads > 1
    /\ app.selectedTeam # NullTeam /\ ~TopRated(app.selectedTeam, app.teams)

----------------------------------------------------------------------------
(* C24: when the data source is entirely unavailable (every URL gives a    *)
(* network error, a non-OK response or a payload with no records) no       *)
(* record is normalized: the team loader returns an empty list without     *)
(* throwing, the player loader raises an error, and the application ends   *)
(* in its error state rather than showing computed team data.              *)

Unavailable(response) ==
    response \in {"network error", "not ok", "bad json", "no list", "empty list"}
SourceUnavailable == \A k \in 1..Len(responses) : Unavailable(responses[k])
\* the team fetch of the load gave no team: it threw, or returned nothing
NoTeamsFetched(f) ==
    f.teams.kind \in {"rejected", "null"} \/ (f.teams.kind = "list" /\ f.teams.list = <<>>)

C24_SourceUnavailable ==
    /\ (pc = "loader" /\ outcome # Pending /\ SourceUnavailable) =>
           /\ mappedUrls = {}
           /\ Len(requested) = Len(responses)
           /\ loader = "loadTeamsFromJson" => outcome = [kind |-> "returned", data |-> 0]
           /\ loader = "fetchPlayerData" => outcome.kind = "thrown"
    /\ (pc = "settled" /\ NoTeamsFetched(fetched)) =>
           /\ renderContent(app) = "error"
           /\ \A i \in 1..Len(app.teams) : app.teams[i].snapshot # loads

\* both player URLs failed and fetchPlayerData threw the last failure
C24_Witness ==
    /\ pc = "loader" /\ loader = "fetchPlayerData" /\ SourceUnavailable
    /\ outcome = [kind |-> "thrown", data |-> 2]

\* the application is in its error state after a team fetch that gave no team
C24_ErrorState ==
    pc = "settled" /\ NoTeamsFetched(fetched) /\ renderContent(app) = "error"

----------------------------------------------------------------------------
(* Player rankings table: sortedPlayers, getSortableValue and              *)
(* handleHeaderSort.                                                       *)
MaxRows == 3

\* the names of the rows, in the order of localeCompare
Names == <<"Allen", "Brown">>
NameIndex(name) == CHOOSE i \in 1..Len(Names) : Names[i] = name
localeCompare(a, b) == NameIndex(a) - NameIndex(b)

\* the sort keys: the overall rating and, of the statistics, points per game
SortKeys == {"overall", "pts"}

\* STAT_DEFINITIONS[key].accessor(player)
StatAccessor(row, key) == row.perGame.pts

getSortableValue(row, key) ==
    IF key = "overall"
    THEN IF row.ratings.present /\ TypeofNumber(row.ratings.overall)
         THEN row.ratings.overall ELSE Null
    ELSE LET val == StatAccessor(row, key)
         IN  IF TypeofNumber(val) /\ IsFinite(val) THEN val ELSE Null

\* aVal === bVal
StrictEquals(x, y) == x = y /\ x.t # "nan"

\* the same, with no order among rows of equal value
comparePlayersNoTieBreak(a, b, key, dir) ==
    LET aVal == getSortableValue(a, key)
        bVal == getSortableValue(b, key)
    IN  IF StrictEquals(aVal, bVal) THEN 0
        ELSE IF aVal = Null THEN (IF dir = "desc" THEN 1 ELSE -1)
        ELSE IF bVal = Null THEN (IF dir = "desc" THEN -1 ELSE 1)
        ELSE IF dir = "desc" THEN Compare(bVal, aVal) ELSE Compare(aVal, bVal)

\* the comparator of sortedPlayers
comparePlayers(a, b, key, dir) ==
    LET aVal == getSortableValue(a, key)
        bVal == getSortableValue(b, key)
    IN  IF StrictEquals(aVal, bVal) THEN localeCompare(a.name, b.name)
        ELSE IF aVal = Null THEN (IF dir = "desc" THEN 1 ELSE -1)
        ELSE IF bVal = Null THEN (IF dir = "desc" THEN -1 ELSE 1)
        ELSE IF dir = "desc" THEN Compare(bVal, aVal) ELSE Compare(aVal, bVal)

\* Array.prototype.sort with the comparator results c[i, j] of m elements:
\* the stable order when c is a consistent comparison function, and an
\* implementation-defined order otherwise
RECURSIVE StableSortBy(_, _)
StableSortBy(c, k) ==
    IF k = 0 THEN <<>>
    ELSE LET s == StableSortBy(c, k - 1)
             after == {p \in 1..Len(s) : c[k, s[p]] >= 0}
             pos == IF after = {} THEN 0 ELSE CHOOSE p \in after : \A q \in after : q <= p
         IN  SubSeq(s, 1, pos) \o <<k>> \o SubSeq(s, pos + 1, Len(s))

SortOrdersBy(c, m) ==
    LET D == 1..m
        consistent ==
            /\ \A i \in D, j \in D : (c[i, j] < 0) <=> (c[j, i] > 0)
            /\ \A i \in D, j \in D :
                   \/ c[i, j] > 0
                   \/ \A k \in D :
                          /\ (c[i, j] = 0 /\ c[j, k] = 0) => c[i, k] = 0
                          /\ (c[i, j] < 0 /\ c[j, k] < 0) => c[i, k] < 0
    IN  IF consistent THEN {StableSortBy(c, m)} ELSE IndexPermutations(m)

\* the orders sortedPlayers can have
sortedPlayersOf(list, key, dir) ==
    LET D == 1..Len(list)
        c == [i \in D, j \in D |-> comparePlayers(list[i], list[j], key, dir)]
    IN  {Reorder(list, order) : order \in SortOrdersBy(c, Len(list))}

\* the rows: ratings and statistics as the players file gives them
\* (either the rating or the statistic varies)
RowFields ==
    [name : {Names[i] : i \in 1..Len(Names)},
     ratings : {[present |-> FALSE, overall |-> Undefined]}
                   \cup [present : {TRUE}, overall : {Num(900), Num(850), Null}],
     perGame : [pts : {Num(251)}]]
    \cup [name : {Names[i] : i \in 1..Len(Names)},
          ratings : {[present |-> TRUE, overall |-> Num(900)]},
          perGame : [pts : {Num(251), Undefined}]]
RowLists ==
    {[i \in 1..Len(l) |-> [id |-> i, name |-> l[i].name, ratings |-> l[i].ratings,
                           perGame |-> l[i].perGame]] : l \in SeqsUpTo(RowFields, MaxRows)}

InitTable ==
    /\ IdleLoad /\ IdleApp /\ IdleDelta /\ IdleTeam /\ IdleRank /\ IdlePlayer /\ IdleChart
    /\ IdleHelper
    /\ pc = "table"
    /\ filteredPlayers \in RowLists
    /\ sortKey = "overall"
    /\ sortDir = "desc"
    /\ sortedPlayers \in sortedPlayersOf(filteredPlayers, "overall", "desc")

\* a click on a column header, and the render that follows it
handleHeaderSort(key) ==
    /\ pc = "table"
    /\ sortKey' = key
    /\ sortDir' = IF sortKey = key THEN (IF sortDir = "desc" THEN "asc" ELSE "desc") ELSE "desc"
    /\ sortedPlayers' \in sortedPlayersOf(filteredPlayers, sortKey', sortDir')
    /\ UNCHANGED <<pc, filteredPlayers, loadVars, appVars, deltaVars, teamVars, rankVars,
                   detailVars, playerVars, chartVars, helperVars>>

HeaderSort == \E key \in SortKeys : handleHeaderSort(key)

SpecTable == InitTable /\ [][HeaderSort]_vars

(* C29: for every sort key and both directions, the players with no finite *)
(* value for the sort key are listed after all players that have one, and  *)
(* players with equal values are ordered by name.                          *)

\* the row has a finite value for the key
FiniteValue(row, key) ==
    IF key = "overall" THEN row.ratings.present /\ row.ratings.overall.t = "num"
    ELSE row.perGame.pts.t = "num"
ValueOf(row, key) == IF key = "overall" THEN row.ratings.overall.v ELSE row.perGame.pts.v
SameValue(a, b, key) ==
    \/ ~FiniteValue(a, key) /\ ~FiniteValue(b, key)
    \/ FiniteValue(a, key) /\ FiniteValue(b, key) /\ ValueOf(a, key) = ValueOf(b, key)
\* the rows of equal value are in the order of their names
EqualValuesByName ==
    \A p, q \in 1..Len(sortedPlayers) :
        (p < q /\ SameValue(sortedPlayers[p], sortedPlayers[q], sortKey))
            => localeCompare(sortedPlayers[p].name, sortedPlayers[q].name) <= 0
\* no row without a value is listed before a row with one
MissingLast ==
    \A p, q \in 1..Len(sortedPlayers) :
        (p < q /\ FiniteValue(sortedPlayers[q], sortKey)) => FiniteValue(sortedPlayers[p], sortKey)
\* no row without a value is listed after a row with one
MissingFirst ==
    \A p, q \in 1..Len(sortedPlayers) :
        (p < q /\ FiniteValue(sortedPlayers[p], sortKey)) => FiniteValue(sortedPlayers[q], sortKey)

C29_MissingLast == pc = "table" => MissingLast /\ EqualValuesByName

\* as amended: last in descending order, first in ascending order
C29_MissingLastOrFirst ==
    pc = "table" => /\ sortDir = "desc" => MissingLast
                    /\ sortDir = "asc" => MissingFirst
                    /\ EqualValuesByName
                    /\ Len(sortedPlayers) = Len(filteredPlayers)
                    /\ \A i \in 1..Len(filteredPlayers) :
                           \E p \in 1..Len(sortedPlayers) : sortedPlayers[p] = filteredPlayers[i]

\* an ascending table with a row that has no value, and two rows of equal
\* value that the sort had to put in the order of their names
C29_Witness ==
    /\ pc = "table" /\ sortDir = "asc" /\ Len(sortedPlayers) = 3
    /\ ~FiniteValue(sortedPlayers[1], sortKey)
    /\ SameValue(sortedPlayers[2], sortedPlayers[3], sortKey)
    /\ FiniteValue(sortedPlayers[2], sortKey)
    /\ sortedPlayers[2].name # sortedPlayers[3].name
    /\ sortedPlayers[2].id > sortedPlayers[3].id

----------------------------------------------------------------------------
(* CourtView: positionedPlayers places the players it is given on the      *)
(* court.                                                                  *)
MaxCourtPlayers == 5

positions == <<"PG", "SG", "SF", "PF", "C">>

\* the entry of position pos in the Map's entries, if any
Assigned(entries, pos) == \E e \in 1..Len(entries) : entries[e][1] = pos

\* first pass: each position takes the first player of that position not
\* used yet; the result is the Map's entries, in insertion order, and the
\* used ids
RECURSIVE NaturalPositions(_, _, _, _)
NaturalPositions(starters, k, entries, usedPlayerIds) ==
    IF k > Len(positions) THEN [assigned |-> entries, usedPlayerIds |-> usedPlayerIds]
    ELSE LET pos == positions[k]
             found == {i \in 1..Len(starters) :
                           starters[i].position = pos /\ starters[i].id \notin usedPlayerIds}
         IN  IF found = {} THEN NaturalPositions(starters, k + 1, entries, usedPlayerIds)
             ELSE LET i == CHOOSE x \in found : \A y \in found : x <= y
                  IN  NaturalPositions(starters, k + 1, Append(entries, <<pos, starters[i]>>),
                                       usedPlayerIds \cup {starters[i].id})

\* second pass: the positions still free take the remaining players in order
RECURSIVE RemainingSpots(_, _, _)
RemainingSpots(k, entries, remainingPlayers) ==
    IF k > Len(positions) THEN entries
    ELSE IF ~Assigned(entries, positions[k]) /\ Len(remainingPlayers) > 0
         THEN RemainingSpots(k + 1, Append(entries, <<positions[k], Head(remainingPlayers)>>),
                             Tail(remainingPlayers))
         ELSE RemainingSpots(k + 1, entries, remainingPlayers)

RECURSIVE NotUsed(_, _)
NotUsed(starters, usedPlayerIds) ==
    IF starters = <<>> THEN <<>>
    ELSE (IF Head(starters).id \in usedPlayerIds THEN <<>> ELSE <<Head(starters)>>)
             \o NotUsed(Tail(starters), usedPlayerIds)

\* the first pass only
positionedPlayersNaturalOnly(players) == NaturalPositions(players, 1, <<>>, {}).assigned

\* the entries [position, player] of positionedPlayers
positionedPlayers(players) ==
    LET first == NaturalPositions(players, 1, <<>>, {})
    IN  RemainingSpots(1, first.assigned, NotUsed(players, first.usedPlayerIds))

\* a player's position is any string: one of the five, or another one
PlayerPositions == {"PG", "SG", "SF", "PF", "C", "G"}
CourtPlayers ==
    {[i \in 1..Len(l) |-> [id |-> i, position |-> l[i]]] :
         l \in SeqsUpTo(PlayerPositions, MaxCourtPlayers)}

InitCourt ==
    /\ IdleTable /\ IdleLoad /\ IdleApp /\ IdleDelta /\ IdleTeam /\ IdleRank /\ IdlePlayer
    /\ IdleChart
    /\ pc = "players"
    /\ arg \in CourtPlayers
    /\ result = <<>>

PlaceOnCourt ==
    /\ pc = "players"
    /\ result' = positionedPlayers(arg)
    /\ pc' = "court"
    /\ UNCHANGED <<arg, tableVars, loadVars, appVars, deltaVars, teamVars, rankVars, detailVars,
                   playerVars, chartVars>>

SpecCourt == InitCourt /\ [][PlaceOnCourt]_vars

(* C30: for any list of at most five players with distinct ids, every      *)
(* player is placed at exactly one of PG, SG, SF, PF, C and no position    *)
(* holds two players; for each position, if some player of the list has it *)
(* as position, the first such player of the list is placed there.         *)
C30_CourtPlacement ==
    (pc = "court" /\ Len(arg) <= 5) =>
        /\ \A i \in 1..Len(arg) :
               \E e \in 1..Len(result) :
                   /\ result[e][2] = arg[i]
                   /\ result[e][1] \in {"PG", "SG", "SF", "PF", "C"}
                   /\ \A f \in 1..Len(result) : result[f][2] = arg[i] => f = e
        /\ \A e, f \in 1..Len(result) : result[e][1] = result[f][1] => e = f
        /\ Len(result) = Len(arg)
        /\ \A pos \in {"PG", "SG", "SF", "PF", "C"} :
               \A i \in 1..Len(arg) :
                   (arg[i].position = pos /\ \A j \in 1..(i - 1) : arg[j].position # pos)
                       => \E e \in 1..Len(result) : result[e] = <<pos, arg[i]>>

\* five players, two of them point guards and one with a position that is
\* not on the court: the second point guard and that player fill free spots
C30_Witness ==
    /\ pc = "court" /\ Len(arg) = 5
    /\ arg[1].position = "PG" /\ arg[2].position = "PG" /\ arg[3].position = "G"
    /\ \E e \in 1..Len(result) : result[e][2] = arg[2] /\ result[e][1] # "PG"
    /\ \E e \in 1..Len(result) : result[e][2] = arg[3]

====
